---- MODULE Spec2Model ----
(***************************************************************************)
(* Verification model of xdcc-tui.                                         *)
(*                                                                         *)
(*  Part I   search.ProviderAggregator (concurrent fan-out, merge, sort)   *)
(*  Part II  xdcc.Transfer event channel and its consumer in the TUI       *)
(*  Part III startDownloads, pollDownloadCmd and Update (polling consumer) *)
(*  Part IV  downloadFile: classification of the error Start() returns     *)
(*  Part V   parseFileSize                                                 *)
(*  Part VI  the provider registry alone                                   *)
(*  Part VII the index-based Models of the TUI (Update, View, the filter)  *)
(*  Part VIII a search of the TUI run by the ProviderAggregator            *)
(*  Part IX  the mode-based Model of the TUI and its download queue        *)
(***************************************************************************)
EXTENDS Integers, Sequences, FiniteSets, TLC

\* ---------------------------------------------------------------- bounds
MaxProv  == 2      \* providers that may be registered in a run
NumURLs  == 2      \* distinct locators a provider may report
MaxSize  == 0      \* sizes range over -1 .. MaxSize
MaxBatch == 2      \* records in one provider batch
MaxErrBatch == 1   \* records a provider may return together with an error
CapResults == 1    \* capacity the result list is made with (MaxResults, scaled down)
MaxRegistered == 101  \* providers registered in a run of the registry alone
MaxFileSize == 3   \* bytes a bot may announce in its offer
ChanCap  == 2      \* buffer of a transfer's event channel
MaxParts == 3      \* fragments an error text is put together from
MaxStrLen == 3     \* length of the size strings built from the small alphabet
MaxCount == 20     \* size strings "nK", "nM", "nG" for n up to MaxCount
MaxFrac == 1       \* digits after the decimal point in a size string
Span == 3          \* integers tried on each side of 2^24
MaxNotices == 1    \* bot or network messages reaching a finished Transfer
MaxList == 3       \* records in a list of search results shown by the TUI
MaxFilterLen == 2  \* characters typed into the filter input
MaxTransfers == 2  \* Transfers the TUI starts in a run of the downloads
TuiTransfers == 1  \* Transfers the TUI starts in a run of the whole keyboard
MaxQueue == 2      \* locators in the download queue of the mode-based TUI
MaxCmds == 2       \* downloadFile commands whose message Update has not handled
MaxSearches == 1   \* searches of the mode-based TUI that have not been handled

Providers == 1..MaxProv
URLs      == 1..NumURLs
Sizes     == (-1)..MaxSize

\* XdccFileInfo: Name stands for the provider-specific metadata (Name, Slot)
XdccFileInfo(p) == [URL : URLs, Size : Sizes, Name : {p}]
Batches(p)      == UNION {[1..n -> XdccFileInfo(p)] : n \in 0..MaxBatch}
ErrBatches(p)   == UNION {[1..n -> XdccFileInfo(p)] : n \in 0..MaxErrBatch}

\* ===========================================================================
\* Part I  ProviderAggregator
\* ===========================================================================
VARIABLES
    providerList,  \* registry.providerList: sequence of provider ids
    mainPc,        \* position of the goroutine running Search
    pc,            \* position of each provider goroutine
    resList,       \* per provider: resList returned by p.Search
    err,           \* per provider: err returned by p.Search
    widx,          \* per provider: index of the range loop over resList
    mtx,           \* 0 when unlocked, else the provider holding it
    errChan,       \* buffered channel of provider errors
    wg,            \* WaitGroup counter
    waiter,        \* position of the goroutine doing wg.Wait / close(doneChan)
    doneChan,      \* TRUE once closed
    timeoutChan,   \* "unarmed", "armed", "fired" (tick received)
    allResults,    \* the merge map: function from locator to record
    iterBase,      \* keys present in allResults when the range loop started
    visited,       \* keys the range loop has produced
    results,       \* the slice built from allResults
    resultsNil,    \* TRUE while the results slice is nil
    resultsCap,    \* cap(results)
    retErr,        \* error returned by Search ("unset" until it returns)
    pending        \* providers whose goroutine had not finished when select woke

searchVars == <<providerList, mainPc, pc, resList, err, widx, mtx, errChan, wg,
                waiter, doneChan, timeoutChan, allResults, iterBase, visited,
                results, resultsNil, resultsCap, retErr, pending>>

\* Part II state (declared here so that Part I can leave it unchanged)
VARIABLES
    state,         \* Transfer state machine
    startRet,      \* Start(): "notcalled", "running", "nil", "err"
    workerPc,      \* the Downloading-phase worker: "none", "dial", "copy", "close", "done"
    fileSize,      \* size announced in the offer
    received,      \* bytes the worker has copied from the stream
    reported,      \* bytes already covered by Progress events
    evChan,        \* events buffered in the Transfer's event channel
    evClosed,      \* TRUE once the channel is closed
    closes,        \* number of close() calls on the channel
    consumerPc,    \* the goroutine ranging over PollEvents(): "none", "ranging", "exited"
    observed,      \* events that goroutine has received, in order
    notices        \* bot or network messages that reached the Transfer in a terminal state

transferVars == <<state, startRet, workerPc, fileSize, received, reported, evChan, evClosed, closes,
                  consumerPc, observed, notices>>

\* Part III state: the index-based TUI models polling the event channel
VARIABLES
    evPtr,         \* TRUE when the producer emits its events as pointers
    dlStarted,     \* TRUE once startDownloads has run for the result index
    hasDs,         \* TRUE when m.downloads holds an entry for the index
    ds,            \* that downloadState: bytesTotal, bytesCompleted, completed
    polls,         \* pollDownloadCmd commands outstanding on the channel
    msgs,          \* downloadEventMsg values on their way to Update
    status         \* m.status

pollVars == <<evPtr, dlStarted, hasDs, ds, polls, msgs, status>>

\* Part IV state: the error branch of downloadFile
VARIABLES
    errText,           \* err.Error() of the error Start() returns when it fails
    userFriendlyError, \* text of the error put into the errorMsg
    errorMsgSent       \* TRUE once downloadFile has returned its errorMsg

classifyVars == <<errText, userFriendlyError, errorMsgSent>>

\* Part V state: one call of parseFileSize
VARIABLES
    sizeStr,       \* the argument, a sequence of characters
    parsed,        \* TRUE once parseFileSize has returned
    sizeRet,       \* the int64 it returned
    parseErr       \* the error it returned: "unset", "nil" or "err"

parseVars == <<sizeStr, parsed, sizeRet, parseErr>>

\* Part VII state: the two index-based TUI models and the runtime around them
VARIABLES
    filterCapable, \* TRUE: the Model with the result filter, FALSE: the Model without it
    loopVarShared, \* TRUE: a range loop has one variable for all its iterations
                   \* (Go before 1.22), FALSE: one per iteration
    model,         \* the Model the Bubble Tea runtime holds (m in Update)
    searchCmd,     \* runSearchCmd commands that have not returned their message
    transfers,     \* the Transfers made by startDownloads, in order of creation
    cmds,          \* pollDownloadCmd commands outstanding: [index, ch]
    inbox,         \* messages on their way to Update
    panicked       \* TRUE once Update or View has indexed m.results out of range

tuiVars == <<filterCapable, loopVarShared, model, searchCmd, transfers, cmds, inbox, panicked>>

\* state of the parts that are pure functions of their input
pureVars == <<classifyVars, parseVars>>

\* everything outside Part I
outsideSearch == <<transferVars, pollVars, pureVars, tuiVars>>

\* everything outside Part II
outsideTransfer == <<searchVars, pollVars, pureVars, tuiVars>>

\* everything outside Parts II and III
outsidePoll == <<searchVars, pureVars, tuiVars>>

\* everything outside Part VII but Part I
outsideTui == <<transferVars, pollVars, pureVars>>

Registered == 1..Len(providerList)

EmptyMap == [k \in {} |-> 0]

\* NewProviderAggregator(providers...): the registry holds what it was given
NewProviderAggregator(n) == providerList = [i \in 1..n |-> i]

\* no Search has been called
InitSearchState ==
    /\ mainPc = "idle"
    /\ pc = [p \in Providers |-> "unstarted"]
    /\ resList = [p \in Providers |-> <<>>]
    /\ err = [p \in Providers |-> "unset"]
    /\ widx = [p \in Providers |-> 0]
    /\ mtx = 0
    /\ errChan = <<>>
    /\ wg = 0
    /\ waiter = "unstarted"
    /\ doneChan = FALSE
    /\ timeoutChan = "unarmed"
    /\ allResults = EmptyMap
    /\ iterBase = {}
    /\ visited = {}
    /\ results = <<>>
    /\ resultsNil = TRUE
    /\ resultsCap = 0
    /\ retErr = "unset"
    /\ pending = {}

InitSearch ==
    /\ \E n \in 0..MaxProv : NewProviderAggregator(n)
    /\ InitSearchState

\* a freshly constructed Transfer; nothing started
InitTransfer ==
    /\ state = "Idle"
    /\ startRet = "notcalled"
    /\ workerPc = "none"
    /\ fileSize = 0
    /\ received = 0
    /\ reported = 0
    /\ evChan = <<>>
    /\ evClosed = FALSE
    /\ closes = 0
    /\ consumerPc = "none"
    /\ observed = <<>>
    /\ notices = 0

\* the TUI model with search results loaded, before any download was started
NoEvent == [type |-> "nil", n |-> 0]
NoDs    == [bytesTotal |-> 0, bytesCompleted |-> 0, completed |-> FALSE]

InitPoll ==
    /\ dlStarted = FALSE
    /\ hasDs = FALSE
    /\ ds = NoDs
    /\ polls = 0
    /\ msgs = <<>>
    /\ status = "found results"

\* no download has failed yet
InitClassify ==
    /\ errText = <<>>
    /\ userFriendlyError = <<>>
    /\ errorMsgSent = FALSE

\* an int64 as sign, odd mantissa and power of two: products with GigaByte
\* stay exact and every number has one representation
RECURSIVE Dy(_, _)
Dy(m, e) ==
    IF m = 0 THEN [neg |-> FALSE, m |-> 0, e |-> 0]
    ELSE IF m % 2 = 0 THEN Dy(m \div 2, e + 1)
    ELSE [neg |-> FALSE, m |-> m, e |-> e]

MinusOne == [neg |-> TRUE, m |-> 1, e |-> 0]

\* parseFileSize has not been called
InitParse ==
    /\ sizeStr = <<>>
    /\ parsed = FALSE
    /\ sizeRet = Dy(0, 0)
    /\ parseErr = "unset"

\* the parts that take no part in a run
InitPure == InitClassify /\ InitParse

\* m.status: the format of the text and the count it shows
Status(fmt, n) == [fmt |-> fmt, n |-> n]

\* NewModel(): empty maps, no results, the search input focused
NewModel ==
    model = [results     |-> <<>>,
         filteredResults |-> <<>>,
         cursor          |-> 0,
         selected        |-> {},
         downloads       |-> EmptyMap,
         page            |-> 0,
         status          |-> Status("Enter keywords and press <enter> to search", 0),
         busy            |-> FALSE,
         searchDone      |-> FALSE,
         filterMode      |-> FALSE,
         currentView     |-> "viewSearch",
         searchInput     |-> [value |-> "", focus |-> TRUE],
         filterInput     |-> <<>>]

\* a Transfer that xdcc.NewTransfer has not made yet
Unmade ==
    [file   |-> [URL |-> 0, Size |-> 0, Name |-> <<>>],
     phase  |-> "unmade",
     ch     |-> <<>>,
     closed |-> FALSE]

\* tea.NewProgram(NewModel()): no command issued, no message sent; n is the
\* number of Transfers the run may make
InitRuntime(n) ==
    /\ searchCmd = 0
    /\ transfers = [t \in 1..n |-> Unmade]
    /\ cmds = <<>>
    /\ inbox = <<>>
    /\ panicked = FALSE

InitModel ==
    filterCapable = TRUE /\ loopVarShared = TRUE /\ NewModel /\ InitRuntime(0)

\* a fatal error ends the process: nothing runs after it
Alive == mainPc # "crashed"

\* AddProvider appends without looking at any cap; limit bounds the run
Register(limit) ==
    /\ mainPc = "idle"
    /\ Len(providerList) < limit
    /\ providerList' = Append(providerList, Len(providerList) + 1)
    /\ UNCHANGED <<mainPc, pc, resList, err, widx, mtx, errChan, wg, waiter,
                   doneChan, timeoutChan, allResults, iterBase, visited,
                   results, resultsNil, resultsCap, retErr, pending,
                   outsideSearch>>

AddProvider == Register(MaxProv)

\* if len(registry.providerList) == 0
NoProviders_never == FALSE
NoProviders == Len(providerList) = 0

\* Search, from entry to the select statement
SearchStart ==
    /\ mainPc = "idle"
    /\ IF NoProviders
       THEN /\ results' = <<>>
            /\ resultsNil' = FALSE
            /\ resultsCap' = 0
            /\ retErr' = "nil"
            /\ mainPc' = "returned"
            /\ UNCHANGED <<pc, wg, waiter, timeoutChan>>
       ELSE /\ timeoutChan' = "armed"
            /\ wg' = Len(providerList)
            /\ pc' = [p \in Providers |->
                        IF p \in Registered THEN "calling" ELSE "unstarted"]
            /\ waiter' = "waiting"
            /\ mainPc' = "select"
            /\ UNCHANGED <<results, resultsNil, resultsCap, retErr>>
    /\ UNCHANGED <<providerList, resList, err, widx, mtx, errChan, doneChan,
                   allResults, iterBase, visited, pending,
                   outsideSearch>>

\* p.Search(keywords) returns a batch and possibly an error; a call that
\* never returns stays at "calling"
ProviderReturn(p) ==
    /\ Alive
    /\ pc[p] = "calling"
    /\ \/ \E batch \in Batches(p) :
             /\ resList' = [resList EXCEPT ![p] = batch]
             /\ err' = [err EXCEPT ![p] = "nil"]
       \/ \E batch \in ErrBatches(p) :
             /\ resList' = [resList EXCEPT ![p] = batch]
             /\ err' = [err EXCEPT ![p] = "err"]
    /\ pc' = [pc EXCEPT ![p] = "returned"]
    /\ UNCHANGED <<providerList, mainPc, widx, mtx, errChan, wg, waiter,
                   doneChan, timeoutChan, allResults, iterBase, visited,
                   results, resultsNil, resultsCap, retErr, pending,
                   outsideSearch>>

\* the test of: if err != nil
ErrNil_ignored(p) == TRUE
ErrNil(p) == err[p] = "nil"

\* if err != nil { errChan <- err; return }   (wg.Done is deferred)
ProviderFail(p) ==
    /\ Alive
    /\ pc[p] = "returned"
    /\ ~ErrNil(p)
    /\ Len(errChan) < Len(providerList)
    /\ errChan' = Append(errChan, p)
    /\ wg' = wg - 1
    /\ pc' = [pc EXCEPT ![p] = "done"]
    /\ UNCHANGED <<providerList, mainPc, resList, err, widx, mtx, waiter,
                   doneChan, timeoutChan, allResults, iterBase, visited,
                   results, resultsNil, resultsCap, retErr, pending,
                   outsideSearch>>

\* mtx.Lock() succeeds only on an unlocked mutex
MtxFree_always == TRUE
MtxFree == mtx = 0

ProviderLock(p) ==
    /\ Alive
    /\ pc[p] = "returned"
    /\ ErrNil(p)
    /\ MtxFree
    /\ mtx' = p
    /\ widx' = [widx EXCEPT ![p] = 1]
    /\ pc' = [pc EXCEPT ![p] = "writing"]
    /\ UNCHANGED <<providerList, mainPc, resList, err, errChan, wg, waiter,
                   doneChan, timeoutChan, allResults, iterBase, visited,
                   results, resultsNil, resultsCap, retErr, pending,
                   outsideSearch>>

\* the map key of allResults[res.URL] = res
KeyOf_size(res) == res.Size
KeyOf(res) == res.URL

MapPut(m, res) ==
    [k \in DOMAIN m \cup {KeyOf(res)} |-> IF k = KeyOf(res) THEN res ELSE m[k]]

\* one iteration of: for _, res := range resList { allResults[res.URL] = res }
ProviderWrite(p) ==
    /\ Alive
    /\ pc[p] = "writing"
    /\ widx[p] <= Len(resList[p])
    /\ allResults' = MapPut(allResults, resList[p][widx[p]])
    /\ widx' = [widx EXCEPT ![p] = widx[p] + 1]
    /\ UNCHANGED <<providerList, mainPc, pc, resList, err, mtx, errChan, wg,
                   waiter, doneChan, timeoutChan, iterBase, visited, results,
                   resultsNil, resultsCap, retErr, pending,
                   outsideSearch>>

\* mtx.Unlock() and the deferred wg.Done()
ProviderUnlock(p) ==
    /\ Alive
    /\ pc[p] = "writing"
    /\ widx[p] > Len(resList[p])
    /\ mtx' = 0
    /\ wg' = wg - 1
    /\ pc' = [pc EXCEPT ![p] = "done"]
    /\ UNCHANGED <<providerList, mainPc, resList, err, widx, errChan, waiter,
                   doneChan, timeoutChan, allResults, iterBase, visited,
                   results, resultsNil, resultsCap, retErr, pending,
                   outsideSearch>>

\* go func() { wg.Wait(); close(doneChan) }()
WaiterClose ==
    /\ Alive
    /\ waiter = "waiting"
    /\ wg = 0
    /\ doneChan' = TRUE
    /\ waiter' = "done"
    /\ UNCHANGED <<providerList, mainPc, pc, resList, err, widx, mtx, errChan,
                   wg, allResults, iterBase, visited, results, resultsNil,
                   resultsCap, retErr, pending, timeoutChan,
                   outsideSearch>>

\* leaving the select: results := make(...), and the range loop over the map starts
LeaveSelect ==
    /\ mainPc = "select"
    /\ mainPc' = "merge"
    /\ results' = <<>>
    /\ resultsNil' = FALSE
    /\ resultsCap' = CapResults
    /\ iterBase' = DOMAIN allResults
    /\ visited' = {}
    /\ pending' = {p \in Registered : pc[p] # "done"}
    /\ UNCHANGED <<providerList, pc, resList, err, widx, mtx, errChan, wg,
                   waiter, doneChan, allResults, retErr,
                   outsideSearch>>

\* case <-doneChan
SelectDone ==
    /\ doneChan
    /\ LeaveSelect
    /\ UNCHANGED timeoutChan

\* timeoutChan := time.After(10 * time.Second): the runtime timer delivers once
TimeoutReady_never == FALSE
TimeoutReady == timeoutChan = "armed"

\* case <-timeoutChan: the deadline passes and the select receives the tick
SelectTimeout ==
    /\ TimeoutReady
    /\ LeaveSelect
    /\ timeoutChan' = "fired"

\* the entries provider goroutines are storing right now (inside the write section)
InFlight == {resList[p][widx[p]] :
                p \in {q \in Registered : pc[q] = "writing" /\ widx[q] <= Len(resList[q])}}

\* the zero value of XdccFileInfo, found in a map slot whose key was inserted
\* and whose value was not stored yet
ZeroInfo == [URL |-> 0, Size |-> 0, Name |-> 0]

\* a read that overlaps the store of w over old may take each field from either
Torn(old, w) ==
    {[URL |-> a.URL, Size |-> b.Size, Name |-> c.Name] :
        a \in {old, w}, b \in {old, w}, c \in {old, w}}

\* what the range loop may read under key k: the stored record, or, the map
\* being read without the mutex, what a store in flight on k leaves visible: a
\* record torn between the old and the new value, or for a fresh key the
\* still-zero slot or the new value
ReadEntry(k) ==
    (IF k \in DOMAIN allResults THEN {allResults[k]} ELSE {})
    \cup UNION {IF k \in DOMAIN allResults THEN Torn(allResults[k], w) ELSE {ZeroInfo, w} :
                    w \in {x \in InFlight : KeyOf(x) = k}}

\* append(results, res): the element is added whatever the capacity is
AppendResult_capped(s, res) == IF Len(s) < CapResults THEN Append(s, res) ELSE s
AppendResult(s, res) == Append(s, res)

\* the capacity after an append to a slice of length len and capacity old:
\* a full slice is reallocated, doubled below 256 elements, then grown by
\* a quarter plus 192 (before rounding up to an allocation size)
GrowCap(len, old) ==
    IF len < old THEN old
    ELSE IF old < 256 THEN 2 * old
    ELSE old + (old + 768) \div 4

\* one iteration of: for _, res := range allResults { results = append(results, res) }
MergeNext ==
    /\ mainPc = "merge"
    /\ \E k \in (DOMAIN allResults \cup {KeyOf(w) : w \in InFlight}) \ visited :
          \E res \in ReadEntry(k) :
              /\ results' = AppendResult(results, res)
              /\ visited' = visited \cup {k}
    /\ resultsCap' = GrowCap(Len(results), resultsCap)
    /\ UNCHANGED <<providerList, mainPc, pc, resList, err, widx, mtx, errChan,
                   wg, waiter, doneChan, timeoutChan, allResults, iterBase,
                   resultsNil, retErr, pending,
                   outsideSearch>>

\* the unsynchronised map iteration meets a map write: the runtime may throw
\* "fatal error: concurrent map iteration and map write"
RaceFatal ==
    /\ mainPc = "merge"
    /\ \E p \in Registered : pc[p] = "writing" /\ widx[p] <= Len(resList[p])
    /\ mainPc' = "crashed"
    /\ UNCHANGED <<providerList, pc, resList, err, widx, mtx, errChan, wg,
                   waiter, doneChan, timeoutChan, allResults, iterBase,
                   visited, results, resultsNil, resultsCap, retErr, pending,
                   outsideSearch>>

\* sort.Slice(results, func(i, j int) bool { return results[i].Size > results[j].Size })
Less_asc(a, b) == a.Size < b.Size
Less(a, b) == a.Size > b.Size

\* sort.Slice sorts slices of fewer than 12 elements by insertion sort:
\*   for i := a + 1; i < b; i++ { for j := i; j > a && less(j, j-1); j-- { swap(j, j-1) } }
Swap(s, i, j) == [s EXCEPT ![i] = s[j], ![j] = s[i]]

RECURSIVE InsertBack(_, _)
InsertBack(s, j) ==
    IF j > 1 /\ Less(s[j], s[j - 1])
    THEN InsertBack(Swap(s, j, j - 1), j - 1)
    ELSE s

RECURSIVE InsertionSort(_, _)
InsertionSort(s, i) ==
    IF i > Len(s) THEN s ELSE InsertionSort(InsertBack(s, i), i + 1)

SortSlice(s) == InsertionSort(s, 2)

\* the error value of "return results, nil"
RetErr_first == IF errChan # <<>> THEN "err" ELSE "nil"
RetErr == "nil"

\* the range loop is over when every key it started with was produced; a key
\* inserted while it ran may have been produced or skipped
Return ==
    /\ mainPc = "merge"
    /\ iterBase \subseteq visited
    /\ results' = SortSlice(results)
    /\ retErr' = RetErr
    /\ mainPc' = "returned"
    /\ iterBase' = {}
    /\ visited' = {}
    /\ UNCHANGED <<providerList, pc, resList, err, widx, mtx, errChan, wg,
                   waiter, doneChan, timeoutChan, allResults, resultsNil,
                   resultsCap, pending,
                   outsideSearch>>

NextSearch ==
    \/ AddProvider
    \/ SearchStart
    \/ \E p \in Registered : ProviderReturn(p)
    \/ \E p \in Registered : ProviderFail(p)
    \/ \E p \in Registered : ProviderLock(p)
    \/ \E p \in Registered : ProviderWrite(p)
    \/ \E p \in Registered : ProviderUnlock(p)
    \/ WaiterClose
    \/ SelectDone
    \/ SelectTimeout
    \/ MergeNext
    \/ RaceFatal
    \/ Return

vars == <<searchVars, transferVars, pollVars, pureVars, tuiVars>>

\* a new aggregator beside a Transfer nobody has started
InitAggregator == InitSearch /\ InitTransfer /\ evPtr = TRUE /\ InitPoll /\ InitModel /\ InitPure

SpecSearch == InitAggregator /\ [][NextSearch]_vars

\* the runtime delivers the timer tick and schedules the goroutine running Search
LiveSpecSearch ==
    /\ SpecSearch
    /\ WF_vars(SelectDone)
    /\ WF_vars(SelectTimeout)
    /\ WF_vars(MergeNext)
    /\ WF_vars(Return)

\* ---------------------------------------------------------------------------
\* Claims about ProviderAggregator.Search
\* ---------------------------------------------------------------------------
BatchURLs(p) == {resList[p][i].URL : i \in DOMAIN resList[p]}
ResultURLs   == {results[i].URL : i \in DOMAIN results}
Succeeded    == {p \in Registered \ pending : err[p] = "nil"}
AllPromptOk  == pending = {} /\ \A p \in Registered : err[p] = "nil"

\* C1: when every provider finished without error before Search left its
\* select, the returned list holds one record per distinct locator reported
\* by any provider, and its length is the number of distinct locators.
C1_Dedup ==
    (mainPc = "returned" /\ AllPromptOk) =>
        LET locators == UNION {BatchURLs(p) : p \in Registered} IN
        /\ ResultURLs = locators
        /\ Len(results) = Cardinality(locators)

\* two providers finished in time and both reported the same locator
C1_Witness ==
    /\ mainPc = "returned"
    /\ AllPromptOk
    /\ Len(providerList) = 2
    /\ BatchURLs(1) \cap BatchURLs(2) # {}
    /\ Len(resList[1]) + Len(resList[2]) > Len(results)
    /\ Len(results) = 2

\* C2: every list returned by Search is ordered by size descending.
C2_SortedDesc ==
    mainPc = "returned" =>
        \A i \in 1..(Len(results) - 1) : results[i].Size >= results[i + 1].Size

\* a returned list of two records of different sizes, the smaller not positive
C2_Witness ==
    /\ mainPc = "returned"
    /\ Len(results) = 2
    /\ results[1].Size > results[2].Size
    /\ results[2].Size <= 0

\* providers still inside p.Search
StillCalling == {h \in Registered : pc[h] = "calling"}
\* providers whose call has returned and whose goroutine is not finished
CameBack     == {h \in Registered : pc[h] \in {"returned", "writing"}}

\* some providers are still inside p.Search, every other goroutine has finished
\* (one of them successfully), and Search is waiting in its select
HungAndPrompt ==
    /\ mainPc = "select"
    /\ StillCalling # {}
    /\ \E p \in Registered : pc[p] = "done" /\ err[p] = "nil"
    /\ \A q \in Registered \ StillCalling : pc[q] = "done"

\* C3: with one provider that never returns and another that returned
\* promptly, Search still returns (the deadline fires), with a nil error and
\* a list that contains the prompt provider's locators. "Never returns" is
\* the run in which no provider still inside p.Search comes back.
C3_TimeoutPartiality ==
    /\ [](mainPc = "returned" /\ (\E h \in Registered : pc[h] = "calling") =>
            /\ retErr = "nil"
            /\ \A p \in Succeeded : BatchURLs(p) \subseteq ResultURLs)
    /\ HungAndPrompt ~> (mainPc = "returned" \/ CameBack # {})

\* Search returned through the timeout while one provider was still inside
\* p.Search, with the records of the prompt one
C3_Witness ==
    /\ mainPc = "returned"
    /\ timeoutChan = "fired"
    /\ ~doneChan
    /\ \E h \in Registered : pc[h] = "calling"
    /\ \E p \in Succeeded : BatchURLs(p) # {} /\ BatchURLs(p) \subseteq ResultURLs

\* C4: whatever providers fail, Search returns a nil error and a non-nil list
\* holding the locators of every provider that finished successfully before
\* Search left its select.
C4_FailuresIsolated ==
    mainPc = "returned" =>
        /\ retErr = "nil"
        /\ ~resultsNil
        /\ \A p \in Succeeded : BatchURLs(p) \subseteq ResultURLs

\* one provider failed (returning records with its error), another succeeded
C4_Witness ==
    /\ mainPc = "returned"
    /\ \E f \in Registered \ pending : err[f] = "err" /\ resList[f] # <<>>
    /\ \E p \in Succeeded : BatchURLs(p) # {}
    /\ Len(errChan) = 1

\* C5: with no registered provider Search returns an empty non-nil list and a
\* nil error at once: no goroutine is started and no timer is armed.
C5_NoProviders ==
    Len(providerList) = 0 =>
        /\ mainPc \in {"idle", "returned"}
        /\ timeoutChan = "unarmed"
        /\ waiter = "unstarted"
        /\ \A p \in Providers : pc[p] = "unstarted"
        /\ mainPc = "returned" =>
              results = <<>> /\ ~resultsNil /\ retErr = "nil"

\* Search has returned on an empty registry
C5_Witness == Len(providerList) = 0 /\ mainPc = "returned"

\* C6: once Search has returned no provider goroutine writes the merge map,
\* and no record of a provider that was late at the deadline is in the result.
C6_NoLeakedWrites ==
    /\ [](mainPc = "returned" =>
            \A i \in DOMAIN results : results[i].Name \notin pending)
    /\ [][mainPc = "returned" => allResults' = allResults]_vars

\* C7: the loop copying the merge map never runs while a provider goroutine
\* is in its write section.
C7_NoReadDuringWrite ==
    ~(mainPc = "merge" /\ \E p \in Registered : pc[p] = "writing")

InWriteSection == {p \in Registered : pc[p] = "writing"}

\* C8: at most one provider goroutine is in the write section at any time,
\* and while one is in it every change of the merge map is its own write.
C8_MutualExclusion ==
    /\ [](Cardinality(InWriteSection) <= 1 /\ \A p \in InWriteSection : mtx = p)
    /\ [][\A p \in InWriteSection :
            \A k \in DOMAIN allResults' :
                (k \notin DOMAIN allResults \/ allResults'[k] # allResults[k])
                    => allResults'[k].Name = p]_vars

\* one provider is past the first of two writes while another waits for the lock
C8_Witness ==
    /\ Len(providerList) = 2
    /\ pc[1] = "writing" /\ widx[1] = 2 /\ Len(resList[1]) = 2
    /\ pc[2] = "returned" /\ err[2] = "nil"

\* ===========================================================================
\* Part II  xdcc.Transfer: Start(), the Downloading-phase worker, the event
\*          channel, and the goroutine of downloadFile that drains it
\* ===========================================================================
Event(t, n) == [type |-> t, n |-> n]
IsTerminal(e) == e.type \in {"Completed", "Aborted"}

\* Start(): Idle -> Connecting
StartCall ==
    /\ state = "Idle"
    /\ startRet = "notcalled"
    /\ state' = "Connecting"
    /\ startRet' = "running"
    /\ UNCHANGED <<workerPc, fileSize, received, reported, evChan, evClosed,
                   closes, consumerPc, observed, notices, outsideTransfer>>

\* Connecting -> Requesting: registered, channel joined, pack request sent
StartRequest ==
    /\ state = "Connecting"
    /\ state' = "Requesting"
    /\ UNCHANGED <<startRet, workerPc, fileSize, received, reported, evChan,
                   evClosed, closes, consumerPc, observed, notices, outsideTransfer>>

\* Requesting -> AwaitingOffer
StartAwaitOffer ==
    /\ state = "Requesting"
    /\ state' = "AwaitingOffer"
    /\ UNCHANGED <<startRet, workerPc, fileSize, received, reported, evChan,
                   evClosed, closes, consumerPc, observed, notices, outsideTransfer>>

\* AwaitingOffer -> Downloading: the offer (with its byte size) arrived, the
\* worker is launched and Start() returns nil
StartOffer ==
    /\ state = "AwaitingOffer"
    /\ \E size \in 1..MaxFileSize : fileSize' = size
    /\ state' = "Downloading"
    /\ startRet' = "nil"
    /\ workerPc' = "dial"
    /\ UNCHANGED <<received, reported, evChan, evClosed, closes, consumerPc,
                   observed, notices, outsideTransfer>>

\* the background work Start() leaves behind when it returns an error
LeftRunning_worker == "dial"
LeftRunning == "none"

\* connect, request or offer-phase failure: Start() returns the error, no
\* worker is launched and no event is emitted
StartFail ==
    /\ state \in {"Connecting", "Requesting", "AwaitingOffer"}
    /\ state' = "Aborted"
    /\ startRet' = "err"
    /\ workerPc' = LeftRunning
    /\ UNCHANGED <<fileSize, received, reported, evChan, evClosed,
                   closes, consumerPc, observed, notices, outsideTransfer>>

\* a channel send: blocks while the buffer is full
CanSend == Len(evChan) < ChanCap
Send(e) == evChan' = Append(evChan, e)

\* the stream connection succeeded: Started{announcedSize}
WorkerStarted ==
    /\ workerPc = "dial"
    /\ CanSend
    /\ Send(Event("Started", fileSize))
    /\ workerPc' = "copy"
    /\ UNCHANGED <<state, startRet, fileSize, received, reported, evClosed,
                   closes, consumerPc, observed, notices, outsideTransfer>>

\* one read from the stream, written to the file
WorkerRead ==
    /\ workerPc = "copy"
    /\ \E d \in 1..(fileSize - received) : received' = received + d
    /\ UNCHANGED <<state, startRet, workerPc, fileSize, reported, evChan,
                   evClosed, closes, consumerPc, observed, notices, outsideTransfer>>

\* Progress{bytesSinceLast, rate}, emitted periodically, not on every read
WorkerProgress ==
    /\ workerPc = "copy"
    /\ received > reported
    /\ CanSend
    /\ Send(Event("Progress", received - reported))
    /\ reported' = received
    /\ UNCHANGED <<state, startRet, workerPc, fileSize, received, evClosed,
                   closes, consumerPc, observed, notices, outsideTransfer>>

\* the announced size was reached: Completed{}
WorkerCompleted ==
    /\ workerPc = "copy"
    /\ received = fileSize
    /\ CanSend
    /\ Send(Event("Completed", 0))
    /\ state' = "Completed"
    /\ workerPc' = "close"
    /\ UNCHANGED <<startRet, fileSize, received, reported, evClosed, closes,
                   consumerPc, observed, notices, outsideTransfer>>

\* where the worker goes after it has emitted Aborted
AfterAbort_return == "done"
AfterAbort == "close"

\* socket error, disk-write error or size mismatch: Aborted{reason}
WorkerAborted ==
    /\ workerPc \in {"dial", "copy"}
    /\ CanSend
    /\ Send(Event("Aborted", 0))
    /\ state' = "Aborted"
    /\ workerPc' = AfterAbort
    /\ UNCHANGED <<startRet, fileSize, received, reported, evClosed, closes,
                   consumerPc, observed, notices, outsideTransfer>>

\* the producer closes the channel after the terminal event
WorkerClose ==
    /\ workerPc = "close"
    /\ evClosed' = TRUE
    /\ closes' = closes + 1
    /\ workerPc' = "done"
    /\ UNCHANGED <<state, startRet, fileSize, received, reported, evChan,
                   consumerPc, observed, notices, outsideTransfer>>

\* the state a Transfer in a terminal state takes on a later input
AfterTerminal_retry(s) == "Connecting"
AfterTerminal(s) == s

\* a message from the bot or the network reaches a Transfer that has ended
LateMessage ==
    /\ state \in {"Completed", "Aborted"}
    /\ notices < MaxNotices
    /\ notices' = notices + 1
    /\ state' = AfterTerminal(state)
    /\ UNCHANGED <<startRet, workerPc, fileSize, received, reported, evChan,
                   evClosed, closes, consumerPc, observed, outsideTransfer>>

\* downloadFile: Start() returned nil, so  go func() { evts := transfer.PollEvents() ...
ConsumerStart ==
    /\ startRet = "nil"
    /\ consumerPc = "none"
    /\ consumerPc' = "ranging"
    /\ UNCHANGED <<state, startRet, workerPc, fileSize, received, reported,
                   evChan, evClosed, closes, observed, notices, outsideTransfer>>

\* one iteration of: for evt := range evts
ConsumerRecv ==
    /\ consumerPc = "ranging"
    /\ evChan # <<>>
    /\ observed' = Append(observed, Head(evChan))
    /\ evChan' = Tail(evChan)
    /\ UNCHANGED <<state, startRet, workerPc, fileSize, received, reported,
                   evClosed, closes, consumerPc, notices, outsideTransfer>>

\* a range over a channel ends when the channel is closed and drained
RangeOver_empty == evChan = <<>>
RangeOver == evChan = <<>> /\ evClosed

ConsumerExit ==
    /\ consumerPc = "ranging"
    /\ RangeOver
    /\ consumerPc' = "exited"
    /\ UNCHANGED <<state, startRet, workerPc, fileSize, received, reported,
                   evChan, evClosed, closes, observed, notices, outsideTransfer>>

NextTransfer ==
    \/ StartCall
    \/ StartRequest
    \/ StartAwaitOffer
    \/ StartOffer
    \/ StartFail
    \/ WorkerStarted
    \/ WorkerRead
    \/ WorkerProgress
    \/ WorkerCompleted
    \/ WorkerAborted
    \/ WorkerClose
    \/ LateMessage
    \/ ConsumerStart
    \/ ConsumerRecv
    \/ ConsumerExit

\* one Transfer beside an aggregator with an empty registry
InitOneTransfer ==
    InitSearch /\ providerList = <<>> /\ InitTransfer /\ evPtr = FALSE /\ InitPoll /\ InitModel
    /\ InitPure

SpecTransfer == InitOneTransfer /\ [][NextTransfer]_vars

\* ---------------------------------------------------------------------------
\* Claims about the event channel
\* ---------------------------------------------------------------------------
\* everything put on the channel so far that was not lost: received, then buffered
Emitted == observed \o evChan

OrderOK(s) ==
    \A i \in DOMAIN s :
        /\ s[i].type = "Started" => i = 1
        /\ IsTerminal(s[i]) => i = Len(s)

\* C9: the events observed on one Transfer's channel are at most one Started
\* (first if present), then Progress events, then exactly one terminal event
\* as the last item; the channel is closed only after the terminal event was
\* sent, so the consumer leaves its loop only after receiving it.
C9_EventOrdering ==
    /\ OrderOK(Emitted)
    /\ evClosed => (Emitted # <<>> /\ IsTerminal(Emitted[Len(Emitted)]))
    /\ consumerPc = "exited" =>
          (observed # <<>> /\ IsTerminal(observed[Len(observed)]))

\* the consumer left its loop having seen a full successful stream
C9_Witness ==
    /\ consumerPc = "exited"
    /\ Len(observed) = 4
    /\ observed[1].type = "Started"
    /\ observed[2].type = "Progress"
    /\ observed[3].type = "Progress"
    /\ observed[4].type = "Completed"

\* C10: the producer closes the event channel exactly once, after which no
\* event is sent on it, whether the Downloading phase ends Completed or Aborted.
C10_ClosedOnce ==
    /\ [](closes <= 1 /\ (evClosed <=> closes = 1))
    /\ [](workerPc = "done" => closes = 1)
    /\ [][evClosed => Len(Emitted') = Len(Emitted)]_vars

\* a Downloading phase that ended Aborted, channel closed and drained
C10_Witness ==
    /\ state = "Aborted"
    /\ workerPc = "done"
    /\ closes = 1
    /\ consumerPc = "exited"

\* ===========================================================================
\* Part III  the index-based TUI models: startDownloads, pollDownloadCmd and
\*           the downloadEventMsg case of Update, for one result index
\* ===========================================================================
DownloadEventMsg(e, failed, d) == [evt |-> e, err |-> failed, done |-> d]

\* startDownloads, after transfer.Start() has returned: on an error a command
\* delivering the error, otherwise a downloadState and the first poll
StartDownloads ==
    /\ ~dlStarted
    /\ startRet \in {"nil", "err"}
    /\ dlStarted' = TRUE
    /\ status' = "started"
    /\ IF startRet = "err"
       THEN /\ msgs' = Append(msgs, DownloadEventMsg(NoEvent, TRUE, FALSE))
            /\ UNCHANGED <<hasDs, ds, polls>>
       ELSE /\ hasDs' = TRUE
            /\ \E size \in 0..MaxFileSize : ds' = [NoDs EXCEPT !.bytesTotal = size]
            /\ polls' = polls + 1
            /\ UNCHANGED msgs
    /\ UNCHANGED <<evPtr, transferVars, outsidePoll>>

\* evt, ok := <-ch : ok is false only on a closed and drained channel
RecvOk_open == ~evClosed
RecvOk == evChan # <<>>

\* the command returned by pollDownloadCmd: one receive, one message
Poll ==
    /\ polls > 0
    /\ evChan # <<>> \/ evClosed
    /\ IF RecvOk
       THEN /\ msgs' = Append(msgs, DownloadEventMsg(Head(evChan), FALSE, FALSE))
            /\ evChan' = Tail(evChan)
       ELSE /\ msgs' = Append(msgs, DownloadEventMsg(NoEvent, FALSE, TRUE))
            /\ UNCHANGED evChan
    /\ polls' = polls - 1
    /\ UNCHANGED <<evPtr, dlStarted, hasDs, ds, status,
                   state, startRet, workerPc, fileSize, received, reported,
                   evClosed, closes, consumerPc, observed, notices, outsidePoll>>

\* switch e := msg.evt.(type): the cases name pointer types
Matches(e, t) == evPtr /\ e.type = t

\* if !msg.done { return m, pollDownloadCmd(msg.index, ds.ch) }
Reschedule_never(done) == FALSE
Reschedule(done) == ~done

\* Update, case downloadEventMsg
UpdateDownloadEvent ==
    /\ msgs # <<>>
    /\ msgs' = Tail(msgs)
    /\ LET msg == Head(msgs) IN
       IF msg.err
       THEN /\ status' = "download error"
            /\ UNCHANGED <<ds, polls>>
       ELSE IF ~hasDs
       THEN UNCHANGED <<ds, polls, status>>
       ELSE IF msg.done
       THEN /\ ds' = [ds EXCEPT !.completed = TRUE]
            /\ status' = "completed"
            /\ UNCHANGED polls
       ELSE LET done == Matches(msg.evt, "Completed") IN
            /\ ds' = IF Matches(msg.evt, "Started")
                       THEN [ds EXCEPT !.bytesTotal = msg.evt.n]
                     ELSE IF Matches(msg.evt, "Progress")
                       THEN [ds EXCEPT !.bytesCompleted = @ + msg.evt.n]
                     ELSE IF Matches(msg.evt, "Completed")
                       THEN [ds EXCEPT !.completed = TRUE]
                     ELSE ds
            /\ status' = IF done THEN "completed" ELSE status
            /\ polls' = IF Reschedule(done) THEN polls + 1 ELSE polls
    /\ UNCHANGED <<evPtr, dlStarted, hasDs, transferVars, outsidePoll>>

NextPoll ==
    \/ StartCall
    \/ StartRequest
    \/ StartAwaitOffer
    \/ StartOffer
    \/ StartFail
    \/ WorkerStarted
    \/ WorkerRead
    \/ WorkerProgress
    \/ WorkerCompleted
    \/ WorkerAborted
    \/ WorkerClose
    \/ LateMessage
    \/ StartDownloads
    \/ Poll
    \/ UpdateDownloadEvent

\* one Transfer about to be started by startDownloads
InitPolling ==
    InitSearch /\ providerList = <<>> /\ InitTransfer /\ evPtr \in BOOLEAN /\ InitPoll /\ InitModel
    /\ InitPure

SpecPoll == InitPolling /\ [][NextPoll]_vars

\* the worker keeps running, the runtime runs every command it was handed and
\* delivers every message to Update
LiveSpecPoll ==
    /\ SpecPoll
    /\ WF_vars(WorkerClose)
    /\ WF_vars(StartDownloads)
    /\ WF_vars(Poll)
    /\ WF_vars(UpdateDownloadEvent)

\* ---------------------------------------------------------------------------
\* Claims about the polling consumer
\* ---------------------------------------------------------------------------
\* the Downloading phase of a started transfer ended Aborted
FailedAfterStart == startRet = "nil" /\ state = "Aborted"

\* nothing polls the channel any more and nothing is left for Update
PollingStopped == polls = 0 /\ msgs = <<>>

\* C11: a transfer that fails after Start() succeeded still closes its event
\* channel, and the consumer polling one event at a time then receives the
\* stream-ended message (Update marks the downloadState on it) and stops
\* polling, the channel closed and drained.
C11_FailedStreamEnds ==
    /\ [](FailedAfterStart /\ workerPc = "done" => evClosed)
    /\ FailedAfterStart ~>
          (PollingStopped /\ evClosed /\ evChan = <<>> /\ ds.completed)

\* polling has stopped on a transfer that failed after reporting progress
C11_Witness ==
    /\ FailedAfterStart
    /\ PollingStopped
    /\ evClosed /\ evChan = <<>>
    /\ ds.completed
    /\ reported > 0

\* the message the command of pollDownloadCmd has just produced
LastMsg == msgs'[Len(msgs')]

\* C12: a poll of a closed and drained channel does not block and yields a
\* message with done = true and no event; a poll that finds an event buffered,
\* also after the close, yields that event with done = false and removes it.
C12_PollClosedChannel ==
    /\ [](polls > 0 /\ evClosed /\ evChan = <<>> => ENABLED Poll)
    /\ [][polls' < polls =>
            /\ Len(msgs') = Len(msgs) + 1
            /\ ~LastMsg.err
            /\ IF evChan = <<>>
               THEN evClosed /\ LastMsg.done /\ LastMsg.evt = NoEvent
               ELSE /\ ~LastMsg.done
                    /\ LastMsg.evt = Head(evChan)
                    /\ evChan' = Tail(evChan)]_vars

\* the stream-ended message is on its way to Update, the last event it follows
\* having been taken from the channel after the close
C12_Witness ==
    /\ evClosed /\ evChan = <<>>
    /\ Len(msgs) = 1
    /\ msgs[1].done /\ msgs[1].evt = NoEvent
    /\ polls = 0
    /\ ds.bytesCompleted = fileSize

Rank(s) ==
    CASE s = "Idle"          -> 0
      [] s = "Connecting"    -> 1
      [] s = "Requesting"    -> 2
      [] s = "AwaitingOffer" -> 3
      [] s = "Downloading"   -> 4
      [] s = "Completed"     -> 5
      [] s = "Aborted"       -> 5

\* C14: the state of a Transfer changes only to the next state of Idle,
\* Connecting, Requesting, AwaitingOffer, Downloading, Completed, or from a
\* state after Idle and before the end to Aborted; a Transfer that is Completed
\* or Aborted keeps its state whatever arrives later.
C14_ForwardOnly ==
    /\ [](state \in {"Idle", "Connecting", "Requesting", "AwaitingOffer",
                     "Downloading", "Completed", "Aborted"})
    /\ [][state' # state =>
            /\ state \notin {"Completed", "Aborted"}
            /\ \/ state' # "Aborted" /\ Rank(state') = Rank(state) + 1
               \/ state' = "Aborted" /\ state # "Idle"]_vars

\* a message reached a Transfer after it had completed and its channel was closed
C14_Witness ==
    /\ state = "Completed"
    /\ notices > 0
    /\ workerPc = "done"

\* ===========================================================================
\* Part IV  downloadFile: the error Start() returned, made user-friendly
\* ===========================================================================
\* texts are sequences of words; the phrasings the code looks for
QueueIsFull  == <<"queue", "is", "full">>
NoSlotsOpen  == <<"no", "slots", "open">>
KnownChannel == <<"you", "must", "be", "on", "a", "known", "channel">>
Banned       == <<"banned">>

\* the texts of the errors built with fmt.Errorf
QueueFullMsg    == <<"Bot's download queue is full. Try again later">>
NoSlotsMsg      == <<"Bot has no slots available. Try again later">>
KnownChannelMsg == <<"Bot requires you to join its channel first">>
BannedMsg       == <<"You are banned from this bot">>

\* what an error text may be put together from
Fragments ==
    {QueueIsFull, NoSlotsOpen, KnownChannel, Banned,
     <<"queue">>, <<"is">>, <<"full">>, <<"no", "slots">>, <<"open">>,
     <<"connection", "refused">>}

RECURSIVE Texts(_)
Texts(n) ==
    IF n = 0 THEN {<<>>}
    ELSE LET shorter == Texts(n - 1) IN
         shorter \cup {t \o f : t \in shorter, f \in Fragments}

\* strings.Contains
Contains(str, substr) ==
    \E i \in 0..(Len(str) - Len(substr)) :
        SubSeq(str, i + 1, i + Len(substr)) = substr

\* the if / else-if chain over err.Error()
Friendly_prefix(text) ==
    IF Len(text) >= Len(QueueIsFull) /\ SubSeq(text, 1, Len(QueueIsFull)) = QueueIsFull THEN QueueFullMsg
    ELSE IF Len(text) >= Len(NoSlotsOpen) /\ SubSeq(text, 1, Len(NoSlotsOpen)) = NoSlotsOpen THEN NoSlotsMsg
    ELSE IF Len(text) >= Len(KnownChannel) /\ SubSeq(text, 1, Len(KnownChannel)) = KnownChannel THEN KnownChannelMsg
    ELSE IF Len(text) >= Len(Banned) /\ SubSeq(text, 1, Len(Banned)) = Banned THEN BannedMsg
    ELSE text
Friendly(text) ==
    IF Contains(text, QueueIsFull) THEN QueueFullMsg
    ELSE IF Contains(text, NoSlotsOpen) THEN NoSlotsMsg
    ELSE IF Contains(text, KnownChannel) THEN KnownChannelMsg
    ELSE IF Contains(text, Banned) THEN BannedMsg
    ELSE text

\* err := transfer.Start(); if err != nil { ...; return errorMsg{err: userFriendlyError, url: url} }
DownloadFileError ==
    /\ startRet = "err"
    /\ ~errorMsgSent
    /\ userFriendlyError' = Friendly(errText)
    /\ errorMsgSent' = TRUE
    /\ UNCHANGED <<errText, searchVars, transferVars, pollVars, parseVars, tuiVars>>

NextClassify ==
    \/ StartCall
    \/ StartRequest
    \/ StartAwaitOffer
    \/ StartFail
    \/ DownloadFileError

\* one Transfer whose Start() is going to fail with some error text
InitFailing ==
    /\ InitSearch /\ providerList = <<>>
    /\ InitTransfer /\ evPtr = FALSE /\ InitPoll /\ InitModel
    /\ errText \in Texts(MaxParts)
    /\ userFriendlyError = <<>>
    /\ errorMsgSent = FALSE
    /\ InitParse

SpecClassify == InitFailing /\ [][NextClassify]_vars

\* ---------------------------------------------------------------------------
\* Claims about the classification
\* ---------------------------------------------------------------------------
Known == {QueueIsFull, NoSlotsOpen, KnownChannel, Banned}

MsgOf(phrase) ==
    CASE phrase = QueueIsFull  -> QueueFullMsg
      [] phrase = NoSlotsOpen  -> NoSlotsMsg
      [] phrase = KnownChannel -> KnownChannelMsg
      [] phrase = Banned       -> BannedMsg

Found == {ph \in Known : Contains(errText, ph)}

\* C15: a text containing "queue is full" is reported as queue-full; a text
\* containing one of the known phrasings is reported as the class of a
\* phrasing it contains (its own class when it contains only one), never as
\* the original error; a text containing none is reported unchanged.
C15_Classification ==
    errorMsgSent =>
        /\ Contains(errText, QueueIsFull) => userFriendlyError = QueueFullMsg
        /\ Found # {} => userFriendlyError \in {MsgOf(ph) : ph \in Found}
        /\ Found # {} => userFriendlyError # errText
        /\ Found = {} => userFriendlyError = errText

\* "queue is full" inside a longer text that has a second known phrasing
C15_Witness ==
    /\ errorMsgSent
    /\ Contains(errText, QueueIsFull)
    /\ Contains(errText, Banned)
    /\ Len(errText) > Len(QueueIsFull) + Len(Banned)
    /\ userFriendlyError = QueueFullMsg

\* ===========================================================================
\* Part V  parseFileSize
\* ===========================================================================
DigitChars == <<"0", "1", "2", "3", "4", "5", "6", "7", "8", "9">>
IsDigit(c) == \E d \in 1..10 : DigitChars[d] = c
DigitVal(c) == (CHOOSE d \in 1..10 : DigitChars[d] = c) - 1

RECURSIVE Pow2(_)
Pow2(n) == IF n = 0 THEN 1 ELSE 2 * Pow2(n - 1)

RECURSIVE Pow10(_)
Pow10(n) == IF n = 0 THEN 1 ELSE 10 * Pow10(n - 1)

\* the decimal numbers strconv.ParseFloat accepts among strings of digits,
\* points and letters: digits with at most one point and at least one digit
DotsOf(str) == {i \in DOMAIN str : str[i] = "."}
IsDecimal(str) ==
    /\ Cardinality(DotsOf(str)) <= 1
    /\ \A i \in DOMAIN str \ DotsOf(str) : IsDigit(str[i])
    /\ DOMAIN str \ DotsOf(str) # {}

\* the digits of str read as one integer, and the number of digits after the point
RECURSIVE DigitsValue(_, _, _)
DigitsValue(str, i, acc) ==
    IF i > Len(str) THEN acc
    ELSE IF str[i] = "." THEN DigitsValue(str, i + 1, acc)
    ELSE DigitsValue(str, i + 1, 10 * acc + DigitVal(str[i]))

FracDigits(str) ==
    IF DotsOf(str) = {} THEN 0 ELSE Len(str) - (CHOOSE i \in DotsOf(str) : TRUE)

\* bitSize 32: ParseFloat rounds to a float32, which has a 24-bit significand
SignificandBits == 24

\* a / b rounded to the nearest integer, ties to even
RoundHalfEven(a, b) ==
    LET q == a \div b
        r == a % b
    IN IF 2 * r > b \/ (2 * r = b /\ q % 2 = 1) THEN q + 1 ELSE q

\* the least e, from the one given, with n / (den * 2^e) below 2^24
RECURSIVE ShiftDown(_, _, _)
ShiftDown(n, den, e) ==
    IF n \div (den * Pow2(e)) < Pow2(SignificandBits) THEN e
    ELSE ShiftDown(n, den, e + 1)

\* the greatest sh >= 0 with n * 2^sh / den below 2^24
RECURSIVE ShiftUp(_, _, _)
ShiftUp(n, den, sh) ==
    IF n * Pow2(sh) < Pow2(SignificandBits - 1) * den THEN ShiftUp(n, den, sh + 1)
    ELSE sh

\* bitSize 32: the value n / den rounded to SignificandBits bits, ties to
\* even, as significand and power of two
Round32(n, den) ==
    IF n = 0 THEN [m |-> 0, e |-> 0]
    ELSE IF n \div den >= Pow2(SignificandBits) THEN
        LET e == ShiftDown(n, den, 1) IN
        [m |-> RoundHalfEven(n, den * Pow2(e)), e |-> e]
    ELSE
        LET sh == ShiftUp(n, den, 0) IN
        [m |-> RoundHalfEven(n * Pow2(sh), den), e |-> -sh]

\* strconv.ParseFloat(sizePart, 32): ok is FALSE on a syntax error
ParseFloat(str) ==
    IF IsDecimal(str)
    THEN [ok |-> TRUE, val |-> Round32(DigitsValue(str, 1, 0), Pow10(FracDigits(str)))]
    ELSE [ok |-> FALSE, val |-> [m |-> 0, e |-> 0]]

\* KiloByte, MegaByte, GigaByte as powers of two; -1 for any other character
UnitShift_anycase(c) ==
    CASE c = "G" -> 30 [] c = "M" -> 20 [] c = "K" -> 10
      [] c = "g" -> 30 [] c = "m" -> 20 [] c = "k" -> 10
      [] OTHER -> -1
UnitShift(c) ==
    CASE c = "G" -> 30
      [] c = "M" -> 20
      [] c = "K" -> 10
      [] OTHER   -> -1

\* int64(size * unit): the product is exact, the conversion truncates
ScaleTrunc(val, shift) ==
    IF val.e + shift >= 0
    THEN Dy(val.m, val.e + shift)
    ELSE Dy(val.m \div Pow2(-(val.e + shift)), 0)

\* parseFileSize
ParseFileSize ==
    /\ ~parsed
    /\ parsed' = TRUE
    /\ IF Len(sizeStr) = 0
       THEN sizeRet' = MinusOne /\ parseErr' = "err"
       ELSE LET lastChar == sizeStr[Len(sizeStr)]
                sizePart == SubSeq(sizeStr, 1, Len(sizeStr) - 1)
                size     == ParseFloat(sizePart)
            IN IF ~size.ok
               THEN sizeRet' = MinusOne /\ parseErr' = "err"
               ELSE IF UnitShift(lastChar) >= 0
               THEN /\ sizeRet' = ScaleTrunc(size.val, UnitShift(lastChar))
                    /\ parseErr' = "nil"
               ELSE sizeRet' = MinusOne /\ parseErr' = "err"
    /\ UNCHANGED <<sizeStr, searchVars, transferVars, pollVars, classifyVars, tuiVars>>

NextParse == ParseFileSize

\* the decimal rendering of n
RECURSIVE Digits(_)
Digits(n) ==
    IF n < 10 THEN <<DigitChars[n + 1]>>
    ELSE Digits(n \div 10) \o <<DigitChars[(n % 10) + 1]>>

\* the strings parseFileSize is tried on
SmallAlphabet == {"0", "1", "5", ".", "K", "X", "k"}
UnitChars     == {"K", "M", "G"}

SmallStrings == UNION {[1..n -> SmallAlphabet] : n \in 0..MaxStrLen}
SpecExamples ==
    {<<"1", "0", "K">>, <<"5", "0", "0", "M">>, <<"1", ".", "5", "G">>,
     <<"1", "0", "0">>, <<>>, <<"3", "X">>}
Counts    == (0..MaxCount) \cup ((Pow2(SignificandBits) - Span)..(Pow2(SignificandBits) + Span))
CountStrings == {Digits(n) \o <<u>> : n \in Counts, u \in UnitChars}
FracStrings ==
    {Digits(n) \o <<".">> \o f \o <<u>> :
        n \in 0..2, f \in UNION {[1..k -> {"0", "2", "5"}] : k \in 1..MaxFrac},
        u \in UnitChars}

SizeInputs == SmallStrings \cup SpecExamples \cup CountStrings \cup FracStrings

InitSizes ==
    /\ InitSearch /\ providerList = <<>>
    /\ InitTransfer /\ evPtr = FALSE /\ InitPoll /\ InitModel /\ InitClassify
    /\ sizeStr \in SizeInputs
    /\ parsed = FALSE
    /\ sizeRet = Dy(0, 0)
    /\ parseErr = "unset"

SpecParse == InitSizes /\ [][NextParse]_vars

\* ---------------------------------------------------------------------------
\* Claims about parseFileSize
\* ---------------------------------------------------------------------------
EndsInUnit == sizeStr # <<>> /\ sizeStr[Len(sizeStr)] \in UnitChars
NumberPart == SubSeq(sizeStr, 1, Len(sizeStr) - 1)
IsCount(str) == str # <<>> /\ \A i \in DOMAIN str : IsDigit(str[i])

\* C16: a decimal number followed by K, M or G gives a nil error and the
\* number times 1024, 1024^2 or 1024^3, truncated: "10K" 10240, "500M"
\* 524288000, "1.5G" 1610612736, "nK" n*1024 for every count n, and for a
\* number with a fraction in K the integer part of number * 1024.
C16_ScaledSize ==
    (parsed /\ EndsInUnit /\ IsDecimal(NumberPart)) =>
        /\ parseErr = "nil"
        /\ sizeStr = <<"1", "0", "K">> => sizeRet = Dy(10240, 0)
        /\ sizeStr = <<"5", "0", "0", "M">> => sizeRet = Dy(524288000, 0)
        /\ sizeStr = <<"1", ".", "5", "G">> => sizeRet = Dy(1610612736, 0)
        /\ IsCount(NumberPart) =>
              sizeRet = Dy(DigitsValue(NumberPart, 1, 0),
                           UnitShift(sizeStr[Len(sizeStr)]))
        /\ (sizeStr[Len(sizeStr)] = "K" /\ Len(NumberPart) <= MaxStrLen + 2) =>
              sizeRet = Dy((DigitsValue(NumberPart, 1, 0) * 1024)
                              \div Pow10(FracDigits(NumberPart)), 0)

\* C17: the empty string, a string whose last character is not K, M or G (a
\* bare number, "3X", a lower-case unit) and a string whose number part is
\* malformed give an error and -1; an error never comes with another value,
\* and a nil error never comes with -1.
C17_ParseErrors ==
    parsed =>
        /\ sizeStr = <<>> => parseErr = "err"
        /\ (sizeStr # <<>> /\ ~EndsInUnit) => parseErr = "err"
        /\ (EndsInUnit /\ ~IsDecimal(NumberPart)) => parseErr = "err"
        /\ parseErr = "err" => sizeRet = MinusOne
        /\ parseErr = "nil" => ~sizeRet.neg

\* a well-formed number followed by a lower-case unit was refused
C17_Witness ==
    /\ parsed
    /\ sizeStr = <<"1", "5", "k">>
    /\ parseErr = "err"
    /\ sizeRet = MinusOne

\* ===========================================================================
\* Part VI  the registry alone: NewProviderAggregator and AddProvider
\* ===========================================================================
\* const MaxProviders = 100
MaxProviders == 100

\* AddProvider, called as often as the run allows
AddProviderMore == Register(MaxRegistered)

NextRegistry == AddProviderMore

\* an aggregator constructed with any number of providers
InitRegistry ==
    /\ \E n \in 0..MaxRegistered : NewProviderAggregator(n)
    /\ InitSearchState
    /\ InitTransfer /\ evPtr = FALSE /\ InitPoll /\ InitModel /\ InitPure

SpecRegistry == InitRegistry /\ [][NextRegistry]_vars

\* C18: the aggregator never holds more than MaxProviders providers.
C18_ProviderCap == Len(providerList) <= MaxProviders

Reports(k) ==
    UNION {{resList[p][i] : i \in {j \in DOMAIN resList[p] : resList[p][j].URL = k}} :
              p \in {q \in Registered : err[q] = "nil"}}

\* C20: every record of the returned list is one of the records reported for
\* its locator, whole, and when all providers had finished it is the record
\* written last under that locator.
C20_LastWriterWins ==
    mainPc = "returned" =>
        \A i \in {j \in DOMAIN results : results[j].URL \in URLs} :
            /\ results[i] \in Reports(results[i].URL)
            /\ pending = {} => results[i] = allResults[results[i].URL]

\* ===========================================================================
\* Part VII  the two index-based TUI models: Update on key presses, search
\*           results and download events, the result filter, View
\* ===========================================================================
\* const pageSize = 20, scaled down so that a list of a few records spans
\* several pages
pageSize == 2

\* the records a search may return, by descending size: locator i, and a name
\* and a size that the second and the third record share
Names == << <<"D", ".", "1">>, <<"1", "d">> >>
FileInfo(i) ==
    [URL  |-> i,
     Size |-> 2 - (i \div 2),
     Name |-> Names[((i \div 2) % 2) + 1]]
Catalogue == [i \in 1..MaxList |-> FileInfo(i)]
ResultLists ==
    {SubSeq(Catalogue, 1, n) : n \in 0..MaxList} \cup {SubSeq(Catalogue, 2, MaxList)}

\* the keys with a rune: msg.String() is the rune, a focused text input
\* appends it
Runes == {"d", " ", ".", ">", "<", "1", "/"}

\* strings.ToLower, strings.TrimSpace, strings.HasPrefix, strings.HasSuffix
ToLowerChar(c) ==
    CASE c = "D" -> "d" [] c = "K" -> "k" [] c = "M" -> "m" [] c = "G" -> "g"
      [] c = "X" -> "x" [] OTHER -> c
ToLower(str) == [i \in DOMAIN str |-> ToLowerChar(str[i])]

RECURSIVE TrimLeft(_)
TrimLeft(str) ==
    IF str # <<>> /\ Head(str) = " " THEN TrimLeft(Tail(str)) ELSE str
RECURSIVE TrimRight(_)
TrimRight(str) ==
    IF str # <<>> /\ str[Len(str)] = " "
    THEN TrimRight(SubSeq(str, 1, Len(str) - 1)) ELSE str
TrimSpace(str) == TrimRight(TrimLeft(str))

HasPrefix(str, prefix) ==
    Len(str) >= Len(prefix) /\ SubSeq(str, 1, Len(prefix)) = prefix
HasSuffix(str, suffix) ==
    Len(str) >= Len(suffix)
    /\ SubSeq(str, Len(str) - Len(suffix) + 1, Len(str)) = suffix

\* for i < len(s) && (s[i] == '.' || s[i] >= '0' && s[i] <= '9') { i++ }
RECURSIVE NumericPrefix(_, _)
NumericPrefix(s, i) ==
    IF i < Len(s) /\ (s[i + 1] = "." \/ IsDigit(s[i + 1]))
    THEN NumericPrefix(s, i + 1) ELSE i

\* parseSizeFilter: ParseFloat with bitSize 64 is exact on these short
\* numbers, the product with a power of two is exact, int64() truncates
SizeErr == [ok |-> FALSE, size |-> 0]
SizeOk(numberStr, unit) ==
    [ok   |-> TRUE,
     size |-> (DigitsValue(numberStr, 1, 0) * unit) \div Pow10(FracDigits(numberStr))]
parseSizeFilter(str) ==
    LET s         == TrimSpace(ToLower(str))
        i         == NumericPrefix(s, 0)
        numberStr == SubSeq(s, 1, i)
        unit      == TrimSpace(SubSeq(s, i + 1, Len(s)))
    IN IF s = <<>> THEN SizeErr
       ELSE IF i = 0 THEN SizeErr
       ELSE IF ~IsDecimal(numberStr) THEN SizeErr
       ELSE IF i >= Len(s) THEN SizeOk(numberStr, 1)
       ELSE IF HasPrefix(unit, <<"k">>) THEN SizeOk(numberStr, Pow2(10))
       ELSE IF HasPrefix(unit, <<"m">>) THEN SizeOk(numberStr, Pow2(20))
       ELSE IF HasPrefix(unit, <<"g">>) THEN SizeOk(numberStr, Pow2(30))
       ELSE SizeErr

\* getCurrentResults
getCurrentResults(mm) ==
    IF Len(mm.filteredResults) > 0 THEN mm.filteredResults ELSE mm.results

\* the test applyFilter appends a record on; filter is trimmed and not empty
Keeps(filter, r) ==
    IF filter[1] = ">" \/ filter[1] = "<"
    THEN LET size == parseSizeFilter(TrimSpace(Tail(filter)))
         IN size.ok /\ IF filter[1] = "<" THEN r.Size < size.size
                                         ELSE r.Size > size.size
    ELSE IF HasPrefix(filter, <<".">>)
    THEN HasSuffix(ToLower(r.Name), ToLower(filter))
    ELSE Contains(ToLower(r.Name), ToLower(filter))

\* the slice applyFilter builds with append, nil when nothing was appended
Filtered(res, filter) == SelectSeq(res, LAMBDA r : Keeps(filter, r))

\* applyFilter
applyFilter(mm) ==
    LET filter == TrimSpace(mm.filterInput) IN
    IF filter = <<>>
    THEN [mm EXCEPT !.filteredResults = <<>>,
                    !.cursor = 0,
                    !.page = 0,
                    !.status = Status("Filter cleared", 0)]
    ELSE LET filtered == Filtered(mm.results, filter) IN
         [mm EXCEPT !.filteredResults = filtered,
                    !.cursor = 0,
                    !.page = 0,
                    !.status = Status("Filter: %s (%d results)", Len(filtered))]

\* the Model without the filter never sets filterMode or filteredResults
View(mm) ==
    IF filterCapable /\ mm.filterMode THEN "filter"
    ELSE IF filterCapable /\ ~mm.searchDone THEN "input"
    ELSE mm.currentView

\* View: the downloads view reads m.results[idx] for every key of m.downloads
ViewPanics(mm) ==
    /\ View(mm) = "viewDownloads"
    /\ \E idx \in DOMAIN mm.downloads : idx >= Len(mm.results)

\* the rows View draws with the "[x]" marker: the indices i of the current
\* list that are keys of m.selected (View draws them one page at a time)
Marked(mm) ==
    {i \in 0..(Len(getCurrentResults(mm)) - 1) : i \in mm.selected}

\* the runtime keeps the Model that Update returned and renders it
Render(mm) ==
    /\ model' = mm
    /\ panicked' = ViewPanics(mm)

\* m.searchInput.Update(msg) for a key: a focused input appends a rune,
\* backspace deletes one; the value is kept as "", " " (blank) or "kw"
TypeInto(input, key) ==
    IF ~input.focus THEN {input}
    ELSE IF key = " " THEN {[input EXCEPT !.value = IF @ = "" THEN " " ELSE @]}
    ELSE IF key \in Runes THEN {[input EXCEPT !.value = "kw"]}
    ELSE IF key = "backspace" /\ input.value # ""
         THEN {input, [input EXCEPT !.value = ""]}
    ELSE {input}

\* the end of Update: the text input sees the message
PassToInput(mm, key) ==
    \E input \in TypeInto(mm.searchInput, key) :
        Render([mm EXCEPT !.searchInput = input])

Running == ~panicked

\* if m.busy { return m, nil }
Busy_never(mm) == FALSE
Busy(mm) == mm.busy

\* a key press that Update handles without issuing a command
KeyOnly(mm) ==
    /\ Render(mm)
    /\ UNCHANGED <<filterCapable, loopVarShared, searchCmd, transfers, cmds, inbox,
                   searchVars, outsideTui>>

\* a key press that falls out of the switch
KeyBreak(mm, key) ==
    /\ PassToInput(mm, key)
    /\ UNCHANGED <<filterCapable, loopVarShared, searchCmd, transfers, cmds, inbox,
                   searchVars, outsideTui>>

\* Update in filter mode: enter applies the filter, esc and backspace on an
\* empty input leave the mode, "/" is dropped, every other key goes to the
\* filter input and the filter is applied again
FilterModeKey(key) ==
    IF key = "enter"
    THEN KeyOnly(applyFilter([model EXCEPT !.filterMode = FALSE]))
    ELSE IF key = "esc"
    THEN KeyOnly([model EXCEPT !.filterMode = FALSE,
                               !.filteredResults = <<>>,
                               !.status = Status("Filter cleared", 0),
                               !.cursor = 0,
                               !.page = 0])
    ELSE IF key = "backspace" /\ model.filterInput = <<>>
    THEN KeyOnly([model EXCEPT !.filterMode = FALSE,
                               !.filteredResults = <<>>,
                               !.status = Status("Filter cleared", 0)])
    ELSE IF key = "/"
    THEN KeyOnly(model)
    ELSE /\ key \in Runes => Len(model.filterInput) < MaxFilterLen
         /\ KeyOnly(applyFilter(
                [model EXCEPT !.filterInput =
                    IF key \in Runes THEN Append(@, key)
                    ELSE IF key = "backspace" THEN SubSeq(@, 1, Len(@) - 1)
                    ELSE @]))

\* which handler a key press reaches
Ignored    == Busy(model)
InFilter   == ~Ignored /\ filterCapable /\ model.filterMode

\* case "tab"
KeyTab ==
    /\ Running
    /\ IF Ignored THEN KeyOnly(model)
       ELSE IF InFilter THEN FilterModeKey("tab")
       ELSE KeyOnly([model EXCEPT !.currentView =
                        IF @ = "viewSearch" THEN "viewDownloads" ELSE "viewSearch"])

\* case "left", "h"
KeyLeft ==
    /\ Running
    /\ IF Ignored THEN KeyOnly(model)
       ELSE IF InFilter THEN FilterModeKey("left")
       ELSE IF model.currentView = "viewSearch" /\ model.cursor > 0
       THEN LET c == IF model.cursor >= pageSize THEN model.cursor - pageSize ELSE 0
            IN KeyBreak([model EXCEPT !.cursor = c, !.page = c \div pageSize], "left")
       ELSE KeyBreak(model, "left")

\* case "right", "l"
KeyRight ==
    /\ Running
    /\ IF Ignored THEN KeyOnly(model)
       ELSE IF InFilter THEN FilterModeKey("right")
       ELSE IF model.currentView = "viewSearch"
               /\ model.cursor < Len(model.results) - 1
       THEN LET c == IF model.cursor + pageSize < Len(model.results)
                     THEN model.cursor + pageSize
                     ELSE Len(model.results) - 1
            IN KeyBreak([model EXCEPT !.cursor = c, !.page = c \div pageSize], "right")
       ELSE KeyBreak(model, "right")

\* case "/"
KeySlash ==
    /\ Running
    /\ IF Ignored THEN KeyOnly(model)
       ELSE IF InFilter THEN FilterModeKey("/")
       ELSE IF filterCapable /\ model.currentView = "viewSearch" /\ model.searchDone
       THEN KeyOnly([model EXCEPT !.filterMode = TRUE,
                                  !.filterInput = <<>>,
                                  !.status = Status("Filter: ", 0)])
       ELSE KeyBreak(model, "/")

\* case "esc": back to the search input, the result lists dropped
KeyEsc ==
    /\ Running
    /\ IF Ignored THEN KeyOnly(model)
       ELSE IF InFilter THEN FilterModeKey("esc")
       ELSE IF filterCapable /\ model.searchDone
       THEN KeyBreak([model EXCEPT !.searchDone = FALSE,
                                   !.searchInput = [value |-> "", focus |-> TRUE],
                                   !.status = Status("Enter search query", 0),
                                   !.results = <<>>,
                                   !.filteredResults = <<>>,
                                   !.cursor = 0,
                                   !.page = 0], "esc")
       ELSE KeyBreak(model, "esc")

\* the two steps of case "up", "k" and case "down", "j"
CursorUp(mm) ==
    LET c == IF mm.cursor > 0 THEN mm.cursor - 1 ELSE mm.cursor
    IN [mm EXCEPT !.cursor = c,
                  !.page = IF c < mm.page * pageSize THEN @ - 1 ELSE @]
\* the cursor moved down with the page left where it was
CursorDown_pageKept(mm, len) ==
    [mm EXCEPT !.cursor = IF @ < len - 1 THEN @ + 1 ELSE @]
CursorDown(mm, len) ==
    LET c == IF mm.cursor < len - 1 THEN mm.cursor + 1 ELSE mm.cursor
    IN [mm EXCEPT !.cursor = c,
                  !.page = IF c >= (mm.page + 1) * pageSize THEN @ + 1 ELSE @]

\* case "up", "k": the Model with the filter moves only once a search is done
KeyUp ==
    /\ Running
    /\ IF Ignored THEN KeyOnly(model)
       ELSE IF InFilter THEN FilterModeKey("up")
       ELSE IF model.currentView # "viewSearch" THEN KeyBreak(model, "up")
       ELSE IF filterCapable /\ ~model.searchDone THEN KeyBreak(model, "up")
       ELSE IF Len(getCurrentResults(model)) = 0 THEN KeyBreak(model, "up")
       ELSE KeyBreak(CursorUp(model), "up")

\* case "down", "j"
KeyDown ==
    /\ Running
    /\ IF Ignored THEN KeyOnly(model)
       ELSE IF InFilter THEN FilterModeKey("down")
       ELSE IF model.currentView # "viewSearch" THEN KeyBreak(model, "down")
       ELSE IF Len(getCurrentResults(model)) = 0 THEN KeyBreak(model, "down")
       ELSE KeyBreak(CursorDown(model, Len(getCurrentResults(model))), "down")

\* case " ": the key of m.selected is the cursor
KeySpace ==
    /\ Running
    /\ IF Ignored THEN KeyOnly(model)
       ELSE IF InFilter THEN FilterModeKey(" ")
       ELSE IF model.currentView # "viewSearch" THEN KeyBreak(model, " ")
       ELSE IF Len(model.results) = 0 THEN KeyBreak(model, " ")
       ELSE KeyBreak([model EXCEPT !.selected =
                        IF model.cursor \in @ THEN @ \ {model.cursor}
                        ELSE @ \cup {model.cursor}], " ")

\* a key without a case: a rune the text input takes, or backspace
KeyOther(key) ==
    /\ Running
    /\ IF Ignored THEN KeyOnly(model)
       ELSE IF InFilter THEN FilterModeKey(key)
       ELSE KeyBreak(model, key)
KeyRune      == \E key \in Runes \ {"d", " ", "/"} : KeyOther(key)
KeyBackspace == KeyOther("backspace")

\* messages of the two kinds Update handles
SearchResultsMsg(res) ==
    [kind |-> "searchResults", results |-> res, index |-> 0, evt |-> NoEvent,
     err |-> FALSE, done |-> FALSE]
DownloadMsg(index, e, failed, d) ==
    [kind |-> "downloadEvent", results |-> <<>>, index |-> index, evt |-> e,
     err |-> failed, done |-> d]

\* xdcc.NewTransfer(xdcc.Config{File: file.URL}) followed by Start(): a
\* Transfer that failed to start has no worker and an open, empty channel
NewTransfer(file, failed) ==
    [file   |-> file,
     phase  |-> IF failed THEN "failed" ELSE "offered",
     ch     |-> <<>>,
     closed |-> FALSE]

\* the number of Transfers made so far
Made == Cardinality({t \in DOMAIN transfers : transfers[t].phase # "unmade"})

\* the elements of a set of integers in ascending order
RECURSIVE Ascending(_)
Ascending(S) ==
    IF S = {} THEN <<>>
    ELSE LET x == CHOOSE y \in S : \A z \in S : y <= z
         IN <<x>> \o Ascending(S \ {x})

\* indicesToDownload of the Model with the filter: the selected indices, or
\* the index in m.results of the first record with the name and the size of
\* the record under the cursor
indicesToDownload(mm) ==
    IF Len(getCurrentResults(mm)) = 0 THEN {}
    ELSE IF mm.selected # {} THEN mm.selected
    ELSE IF Len(mm.filteredResults) > 0 /\ mm.cursor < Len(mm.filteredResults)
    THEN LET r    == mm.filteredResults[mm.cursor + 1]
             hits == {i \in 0..(Len(mm.results) - 1) :
                         /\ mm.results[i + 1].Name = r.Name
                         /\ mm.results[i + 1].Size = r.Size}
         IN IF hits = {} THEN {} ELSE {CHOOSE i \in hits : \A j \in hits : i <= j}
    ELSE IF mm.cursor < Len(mm.results) THEN {mm.cursor}
    ELSE {}

\* indicesToDownload of the Model without the filter
PlainIndicesToDownload(mm) ==
    IF Len(mm.results) = 0 THEN {}
    ELSE IF mm.selected # {} THEN mm.selected
    ELSE {mm.cursor}

Indices(mm) ==
    IF filterCapable THEN indicesToDownload(mm) ELSE PlainIndicesToDownload(mm)

\* return m, m.startDownloads(indices): the order in which the operand m is
\* read and the method is called is not specified, so the Model returned may
\* carry the status from before the call
StatusAfterStart(mm, n) == {mm.status, Status("started %d download(s)", n)}

\* startDownloads: a Transfer per index, started at once; a downloadState and
\* a poll for each one that started, an error message for each that did not
startDownloads(mm, indices) ==
    IF \E idx \in indices : idx >= Len(mm.results)
    THEN /\ panicked' = TRUE
         /\ UNCHANGED <<model, transfers, cmds, inbox>>
    ELSE /\ Made + Cardinality(indices) <= Len(transfers)
         /\ \E failed \in SUBSET indices :
              LET order == Ascending(indices)
                  base  == Made
                  ok    == {k \in DOMAIN order : order[k] \notin failed}
                  chOf  == [idx \in indices |->
                              base + (CHOOSE k \in DOMAIN order : order[k] = idx)]
              IN /\ transfers' =
                        [t \in DOMAIN transfers |->
                            IF t - base \in DOMAIN order
                            THEN NewTransfer(mm.results[order[t - base] + 1],
                                             order[t - base] \in failed)
                            ELSE transfers[t]]
                 /\ cmds' = cmds \o
                        [j \in 1..Cardinality(ok) |->
                            [index |-> Ascending(indices \ failed)[j],
                             ch    |-> chOf[Ascending(indices \ failed)[j]]]]
                 /\ inbox' = inbox \o
                        [j \in 1..Cardinality(failed) |->
                            DownloadMsg(Ascending(failed)[j], NoEvent, TRUE, FALSE)]
                 /\ \E st \in StatusAfterStart(mm, Cardinality(indices)) :
                        Render([mm EXCEPT
                            !.status = st,
                            !.downloads =
                                [idx \in DOMAIN @ \cup (indices \ failed) |->
                                    IF idx \in indices \ failed
                                    THEN [bytesTotal     |-> mm.results[idx + 1].Size,
                                          bytesCompleted |-> 0,
                                          completed      |-> FALSE,
                                          ch             |-> chOf[idx]]
                                    ELSE @[idx]]])

\* case "d"
KeyD ==
    /\ Running
    /\ IF Ignored THEN KeyOnly(model)
       ELSE IF InFilter THEN FilterModeKey("d")
       ELSE IF model.currentView # "viewSearch" THEN KeyBreak(model, "d")
       ELSE IF Indices(model) = {} THEN KeyBreak(model, "d")
       ELSE /\ startDownloads(model, Indices(model))
            /\ UNCHANGED <<filterCapable, loopVarShared, searchCmd, searchVars, outsideTui>>

\* query == "" after strings.TrimSpace
NoQuery(mm) == mm.searchInput.value \in {"", " "}

\* case "enter" before a search is done: the Model with the filter also marks
\* the search done and drops its lists
EnterSearch(mm) ==
    IF filterCapable
    THEN [mm EXCEPT !.searchDone = TRUE,
                    !.results = <<>>,
                    !.filteredResults = <<>>,
                    !.cursor = 0,
                    !.page = 0,
                    !.busy = TRUE,
                    !.status = Status("searching", 0)]
    ELSE [mm EXCEPT !.busy = TRUE,
                    !.status = Status("searching", 0)]

\* case "enter": starts the search, or the downloads once a search is done
KeyEnter ==
    /\ Running
    /\ IF Ignored THEN KeyOnly(model)
       ELSE IF InFilter THEN FilterModeKey("enter")
       ELSE IF ~model.searchDone
       THEN IF NoQuery(model)
            THEN KeyOnly([model EXCEPT
                            !.status = Status("please type something to search", 0)])
            ELSE /\ Render(EnterSearch(model))
                 /\ searchCmd' = searchCmd + 1
                 /\ UNCHANGED <<filterCapable, loopVarShared, transfers, cmds, inbox,
                                searchVars, outsideTui>>
       ELSE IF Indices(model) = {} THEN KeyOnly(model)
       ELSE /\ startDownloads(model, Indices(model))
            /\ UNCHANGED <<filterCapable, loopVarShared, searchCmd, searchVars, outsideTui>>

\* runSearchCmd, the result of aggr.Search taken as an input: a list by
\* descending size and a nil error
SearchCmdReturns ==
    /\ Running
    /\ searchCmd > 0
    /\ \E res \in ResultLists : inbox' = Append(inbox, SearchResultsMsg(res))
    /\ searchCmd' = searchCmd - 1
    /\ UNCHANGED <<filterCapable, loopVarShared, model, transfers, cmds, panicked,
                   searchVars, outsideTui>>

\* Update, case searchResultsMsg: the Model without the filter keeps its page
Loaded(mm, res) ==
    IF filterCapable
    THEN [mm EXCEPT !.results = res,
                    !.filteredResults = <<>>,
                    !.cursor = 0,
                    !.page = 0,
                    !.selected = {},
                    !.status = Status("found %d results | / to filter", Len(res))]
    ELSE [mm EXCEPT !.results = res,
                    !.cursor = 0,
                    !.selected = {},
                    !.status = Status("found %d results", Len(res))]

UpdateSearchResults ==
    /\ Running
    /\ inbox # <<>>
    /\ Head(inbox).kind = "searchResults"
    /\ inbox' = Tail(inbox)
    /\ Render(Loaded([model EXCEPT !.busy = FALSE,
                                   !.searchDone = TRUE,
                                   !.searchInput.focus = FALSE],
                     SortSlice(Head(inbox).results)))
    /\ UNCHANGED <<filterCapable, loopVarShared, searchCmd, transfers, cmds,
                   searchVars, outsideTui>>

\* the Downloading-phase worker of a started Transfer: Started once the
\* stream connection is made, one terminal event, then the close
TransferStarted(t) ==
    /\ transfers[t].phase = "offered"
    /\ transfers' = [transfers EXCEPT
                        ![t].phase = "started",
                        ![t].ch = Append(@, Event("Started", transfers[t].file.Size))]
    /\ UNCHANGED <<filterCapable, loopVarShared, model, searchCmd, cmds, inbox, panicked,
                   searchVars, outsideTui>>

TransferEnds(t) ==
    /\ transfers[t].phase \in {"offered", "started"}
    /\ \E type \in {"Completed", "Aborted"} :
          /\ transfers[t].phase = "offered" => type = "Aborted"
          /\ transfers' = [transfers EXCEPT
                              ![t].phase = "terminal",
                              ![t].ch = Append(@, Event(type, 0))]
    /\ UNCHANGED <<filterCapable, loopVarShared, model, searchCmd, cmds, inbox, panicked,
                   searchVars, outsideTui>>

TransferCloses(t) ==
    /\ transfers[t].phase = "terminal"
    /\ transfers' = [transfers EXCEPT ![t].phase = "closed", ![t].closed = TRUE]
    /\ UNCHANGED <<filterCapable, loopVarShared, model, searchCmd, cmds, inbox, panicked,
                   searchVars, outsideTui>>

\* the sequence without its i-th element
Without(s, i) == SubSeq(s, 1, i - 1) \o SubSeq(s, i + 1, Len(s))

\* the command of pollDownloadCmd(index, ch): evt, ok := <-ch
PollCmd(i) ==
    LET t == cmds[i].ch IN
    /\ Running
    /\ transfers[t].ch # <<>> \/ transfers[t].closed
    /\ IF transfers[t].ch # <<>>
       THEN /\ inbox' = Append(inbox,
                    DownloadMsg(cmds[i].index, Head(transfers[t].ch), FALSE, FALSE))
            /\ transfers' = [transfers EXCEPT ![t].ch = Tail(@)]
       ELSE /\ inbox' = Append(inbox, DownloadMsg(cmds[i].index, NoEvent, FALSE, TRUE))
            /\ UNCHANGED transfers
    /\ cmds' = Without(cmds, i)
    /\ UNCHANGED <<filterCapable, loopVarShared, model, searchCmd, panicked, searchVars, outsideTui>>

\* Update, case downloadEventMsg
UpdateDownload ==
    /\ Running
    /\ inbox # <<>>
    /\ Head(inbox).kind = "downloadEvent"
    /\ inbox' = Tail(inbox)
    /\ LET msg  == Head(inbox)
           idx  == msg.index
           done == msg.done \/ Matches(msg.evt, "Completed")
       IN IF msg.err
          THEN /\ Render([model EXCEPT !.status = Status("download error", 0)])
               /\ UNCHANGED cmds
          ELSE IF idx \notin DOMAIN model.downloads
          THEN /\ Render(model)
               /\ UNCHANGED cmds
          ELSE IF done
          THEN /\ UNCHANGED cmds
               /\ IF idx >= Len(model.results)
                  THEN panicked' = TRUE /\ UNCHANGED model
                  ELSE Render([model EXCEPT
                                  !.downloads[idx].completed = TRUE,
                                  !.status = Status("completed", idx)])
          ELSE /\ Render([model EXCEPT
                            !.downloads[idx].bytesTotal =
                                IF Matches(msg.evt, "Started") THEN msg.evt.n ELSE @,
                            !.downloads[idx].bytesCompleted =
                                IF Matches(msg.evt, "Progress") THEN @ + msg.evt.n ELSE @])
               /\ cmds' = Append(cmds, [index |-> idx, ch |-> model.downloads[idx].ch])
    /\ UNCHANGED <<filterCapable, loopVarShared, searchCmd, transfers, searchVars, outsideTui>>

\* the keyboard, the search command and Update, while no Transfer that was
\* started has reported yet
NextTui ==
    \/ KeyRune
    \/ KeyTab
    \/ KeyEnter
    \/ KeyLeft
    \/ KeyRight
    \/ KeySlash
    \/ KeyEsc
    \/ KeyUp
    \/ KeyDown
    \/ KeySpace
    \/ KeyD
    \/ KeyBackspace
    \/ SearchCmdReturns
    \/ UpdateSearchResults
    \/ UpdateDownload

\* either Model, newly made, beside an aggregator nobody calls
InitTui ==
    /\ InitSearch /\ providerList = <<>>
    /\ InitTransfer /\ evPtr = TRUE /\ InitPoll /\ InitPure
    /\ filterCapable \in BOOLEAN /\ loopVarShared = TRUE /\ NewModel /\ InitRuntime(TuiTransfers)

SpecTui == InitTui /\ [][NextTui]_vars

\* the downloads: the keys that start searches and Transfers, the workers of
\* the Transfers, the polls and Update
NextDownloads ==
    \/ KeyRune
    \/ KeyTab
    \/ KeyEnter
    \/ KeyEsc
    \/ KeyD
    \/ SearchCmdReturns
    \/ UpdateSearchResults
    \/ \E t \in DOMAIN transfers : TransferStarted(t)
    \/ \E t \in DOMAIN transfers : TransferEnds(t)
    \/ \E t \in DOMAIN transfers : TransferCloses(t)
    \/ \E i \in DOMAIN cmds : PollCmd(i)
    \/ UpdateDownload

InitDownloads ==
    /\ InitSearch /\ providerList = <<>>
    /\ InitTransfer /\ evPtr \in BOOLEAN /\ InitPoll /\ InitPure
    /\ filterCapable \in BOOLEAN /\ loopVarShared = TRUE /\ NewModel /\ InitRuntime(MaxTransfers)

SpecDownloads == InitDownloads /\ [][NextDownloads]_vars

\* ---------------------------------------------------------------------
\* C21: a provider whose Search returned a non-nil error contributes
\* nothing: no step of such a provider changes the merged map, and no
\* record of the map comes from it, whatever it returned with the error.
Failed == {p \in Registered : err[p] = "err" /\ pc[p] # "calling"}

C21_FailedContributesNothing ==
    /\ [](\A k \in DOMAIN allResults : allResults[k].Name \notin Failed)
    /\ [][\A p \in Failed : pc'[p] # pc[p] => allResults' = allResults]_vars

\* a provider failed with a record in hand after another one had merged
\* its batch, and Search returned that batch
C21_Witness ==
    /\ mainPc = "returned"
    /\ \E p \in Failed : pc[p] = "done" /\ resList[p] # <<>>
    /\ \E q \in Succeeded : resList[q] # <<>>
    /\ results # <<>>
    /\ \A i \in DOMAIN results : results[i].Name \notin Failed
\* ---------------------------------------------------------------------
\* C23: the TUI marks a download completed (downloadState.completed, status
\* "completed") only when its transfer ended Completed, never when it
\* ended Aborted and closed its channel.
C23_CompletedOnlyOnCompleted ==
    (ds.completed \/ status = "completed") => state = "Completed"
\* ---------------------------------------------------------------------
\* C22: at most one pollDownloadCmd is outstanding for the event channel of
\* any one Transfer, also after a download was started again for a result
\* index that already has one.
PollsOn(t) == {i \in DOMAIN cmds : cmds[i].ch = t}

C22_SingleConsumer == \A t \in DOMAIN transfers : Cardinality(PollsOn(t)) <= 1
\* ---------------------------------------------------------------------
\* Claims about the download keys of the Model with the filter
\* ---------------------------------------------------------------------
\* the Transfers a step makes, and the records they were made for
MadeNow  == {t \in DOMAIN transfers :
                transfers[t].phase = "unmade" /\ transfers'[t].phase # "unmade"}
NewFiles == {transfers'[t].file : t \in MadeNow}

\* the records View draws with the "[x]" marker
MarkedFiles == {getCurrentResults(model)[i + 1] : i \in Marked(model)}

\* C24: a download key pressed with a non-empty selection starts a Transfer
\* for exactly the records shown with the "[x]" marker in the current list,
\* filtered or not.
C24_MarkedAreDownloaded ==
    [][filterCapable /\ MadeNow # {} /\ model.selected # {}
          => NewFiles = MarkedFiles]_vars

\* C25: 'd' pressed with an empty selection, the cursor on a record of the
\* current list, starts one Transfer, for that record and its locator.
C25_CursorIsDownloaded ==
    [][(/\ filterCapable
        /\ MadeNow # {}
        /\ model.selected = {}
        /\ model.cursor < Len(getCurrentResults(model)))
          => NewFiles = {getCurrentResults(model)[model.cursor + 1]}]_vars
\* ---------------------------------------------------------------------
\* C26: in the Model with the filter every key of m.downloads is an index
\* into m.results, and the record there is the one whose Transfer is stored
\* under the key; Update and View never index m.results out of range.
C26_DownloadsIndexResults ==
    filterCapable =>
        /\ ~panicked
        /\ \A idx \in DOMAIN model.downloads :
              /\ idx < Len(model.results)
              /\ model.results[idx + 1] = transfers[model.downloads[idx].ch].file
\* ---------------------------------------------------------------------
\* C27: in the Model with the filter, while the status line reports an
\* applied non-empty filter, getCurrentResults is exactly the records of
\* m.results that match it, in their order, and its length is the count
\* the status line shows (also when nothing matches or the size filter
\* cannot be parsed).
C27_CurrentListIsTheMatches ==
    (filterCapable /\ model.status.fmt = "Filter: %s (%d results)") =>
        /\ getCurrentResults(model) =
               Filtered(model.results, TrimSpace(model.filterInput))
        /\ Len(getCurrentResults(model)) = model.status.n
\* ---------------------------------------------------------------------
\* C28: in the Model with the filter, whenever the current list
\* (getCurrentResults) is non-empty the cursor is an index into it:
\* 0 <= cursor < len(current list).
C28_CursorInCurrentList ==
    (filterCapable /\ getCurrentResults(model) # <<>>) =>
        /\ model.cursor >= 0
        /\ model.cursor < Len(getCurrentResults(model))
\* ---------------------------------------------------------------------
\* C29: in both index-based Models the page follows the cursor in every
\* reachable state: page = cursor div pageSize, after any sequence of
\* up/down/left/right keys, filter changes, Esc and search results.
C29_PageFollowsCursor == model.page = model.cursor \div pageSize

\* a list longer than one page, with the cursor moved onto its second page
C29_Witness ==
    /\ model.searchDone
    /\ Len(getCurrentResults(model)) > pageSize
    /\ model.cursor >= pageSize
    /\ model.page > 0

\* ===========================================================================
\* Part VIII  runSearchCmd: Update starts aggr.Search, the command hands its
\* result back as a searchResultsMsg
\* ===========================================================================

\* the command begins: res, err := aggr.Search(keywords)
SearchCall ==
    /\ Running
    /\ searchCmd > 0
    /\ SearchStart

\* the command ends: return searchResultsMsg{results: res, err: err}. The
\* locals of the call are gone with it; a later call starts with its own
SearchCmdDone ==
    /\ Running
    /\ searchCmd > 0
    /\ mainPc = "returned"
    /\ inbox' = Append(inbox, SearchResultsMsg(results))
    /\ searchCmd' = searchCmd - 1
    /\ mainPc' = "idle"
    /\ pc' = [p \in Providers |-> "unstarted"]
    /\ resList' = [p \in Providers |-> <<>>]
    /\ err' = [p \in Providers |-> "unset"]
    /\ widx' = [p \in Providers |-> 0]
    /\ mtx' = 0
    /\ errChan' = <<>>
    /\ wg' = 0
    /\ waiter' = "unstarted"
    /\ doneChan' = FALSE
    /\ timeoutChan' = "unarmed"
    /\ allResults' = EmptyMap
    /\ iterBase' = {}
    /\ visited' = {}
    /\ results' = <<>>
    /\ resultsNil' = TRUE
    /\ resultsCap' = 0
    /\ retErr' = "unset"
    /\ pending' = {}
    /\ UNCHANGED <<providerList, filterCapable, loopVarShared, model, transfers, cmds,
                   panicked, outsideTui>>

NextBusy ==
    \/ KeyRune
    \/ KeyEnter
    \/ KeyEsc
    \/ KeyDown
    \/ SearchCall
    \/ \E p \in Registered : ProviderReturn(p)
    \/ \E p \in Registered : ProviderFail(p)
    \/ \E p \in Registered : ProviderLock(p)
    \/ \E p \in Registered : ProviderWrite(p)
    \/ \E p \in Registered : ProviderUnlock(p)
    \/ WaiterClose
    \/ SelectDone
    \/ SelectTimeout
    \/ MergeNext
    \/ RaceFatal
    \/ Return
    \/ SearchCmdDone
    \/ UpdateSearchResults

\* NewModel: either Model, its aggregator made of two providers
InitBusy ==
    /\ NewProviderAggregator(2) /\ InitSearchState
    /\ InitTransfer /\ evPtr = TRUE /\ InitPoll /\ InitPure
    /\ filterCapable \in BOOLEAN /\ loopVarShared = TRUE /\ NewModel /\ InitRuntime(0)

SpecBusy == InitBusy /\ [][NextBusy]_vars

\* the runtime delivers the timer tick, schedules the goroutine running Search
\* and the command, and hands the message to Update
LiveSpecBusy ==
    /\ SpecBusy
    /\ WF_vars(SearchCall)
    /\ WF_vars(SelectDone)
    /\ WF_vars(SelectTimeout)
    /\ WF_vars(MergeNext)
    /\ WF_vars(Return)
    /\ WF_vars(SearchCmdDone)
    /\ WF_vars(UpdateSearchResults)

\* ---------------------------------------------------------------------
\* C30: once Enter has started a search (busy = true) every key message
\* leaves the Model as it is until the searchResultsMsg is handled, at
\* most one search command is in flight, and busy becomes false again in
\* every run, also when a provider never returns.
C30_BusyUntilResult ==
    /\ [][(model.busy /\ model' # model) =>
            (/\ inbox # <<>>
             /\ Head(inbox).kind = "searchResults"
             /\ inbox' = Tail(inbox)
             /\ ~model'.busy)]_vars
    /\ [](searchCmd <= 1)
    /\ model.busy ~> ~model.busy

\* ===========================================================================
\* Part IX  the mode-based Model of the TUI (ModeSearch, ModeResults,
\*          ModeFilter, ModeDownloading), its search and download commands
\* ===========================================================================
\* The variable model holds this Model; cmds holds the downloadFile commands
\* that have not run yet, inbox the messages on their way to Update.

\* itemsPerPage: 15 in NewModel, scaled down so that short lists have pages
itemsPerPage == 2

\* the runes without a case in Update; with "d" they are the characters
\* typed into the filter input
FilterRunes == {"1"}

\* Go's integer division truncates towards zero
TruncDiv(a, b) == IF a >= 0 THEN a \div b ELSE -((-a) \div b)

\* NewModel(): search mode, the search input focused, nothing selected or queued
NewModeModel ==
    model = [mode            |-> "ModeSearch",
             searchInput     |-> [value |-> "", focus |-> TRUE],
             filterInput     |-> [value |-> <<>>, focus |-> FALSE],
             searchResults   |-> <<>>,
             filteredResults |-> <<>>,
             aliased         |-> TRUE,
             cursor          |-> 0,
             page            |-> 0,
             error           |-> "",
             status          |-> Status("", 0),
             selectedFiles   |-> {},
             downloadQueue   |-> <<>>,
             queueCursor     |-> 0,
             currentFile     |-> 0,
             downloadedSize  |-> 0,
             totalSize       |-> 0,
             lastDownloadURL |-> 0]

\* the messages Update handles
searchResultMsg(items) ==
    [kind |-> "searchResult", results |-> items, url |-> 0,
     bytesDownloaded |-> 0, totalBytes |-> 0]
errorMsg(u) ==
    [kind |-> "error", results |-> <<>>, url |-> u,
     bytesDownloaded |-> 0, totalBytes |-> 0]
downloadProgressMsg(bytesDownloaded, totalBytes, u) ==
    [kind |-> "downloadProgress", results |-> <<>>, url |-> u,
     bytesDownloaded |-> bytesDownloaded, totalBytes |-> totalBytes]

\* fileItems = append(fileItems, FileItem{name: r.Name, size: r.Size,
\* url: &r.URL, selected: false}) for _, r := range results: with one loop
\* variable every url points to it, and it holds the last record
FileItems(res) ==
    [i \in DOMAIN res |->
        [name     |-> res[i].Name,
         size     |-> res[i].Size,
         url      |-> IF loopVarShared THEN res[Len(res)].URL ELSE res[i].URL,
         selected |-> FALSE]]

\* findFileItemByURL: the first item with the locator, 0 for nil
findFileItemByURL(items, u) ==
    IF \E i \in DOMAIN items : items[i].url = u
    THEN CHOOSE i \in DOMAIN items :
            items[i].url = u /\ \A j \in 1..(i - 1) : items[j].url # u
    ELSE 0

\* for i, url := range queue { if url.String() == u { remove i; break } }
RemoveFirst(queue, u) ==
    IF \E i \in DOMAIN queue : queue[i] = u
    THEN LET i == CHOOSE k \in DOMAIN queue :
                    queue[k] = u /\ \A j \in 1..(k - 1) : queue[j] # u
         IN SubSeq(queue, 1, i - 1) \o SubSeq(queue, i + 1, Len(queue))
    ELSE queue

\* "Apply filter as you type": the whole list under an empty text, else a
\* new slice of the items whose lowered name contains the lowered text
Refilter(mm) ==
    LET filterText == mm.filterInput.value IN
    IF filterText = <<>>
    THEN [mm EXCEPT !.filteredResults = mm.searchResults,
                    !.aliased = TRUE,
                    !.status = Status("Showing all %d results", Len(mm.searchResults)),
                    !.page = 0,
                    !.cursor = 0]
    ELSE LET matching == SelectSeq(mm.searchResults,
                            LAMBDA item : Contains(ToLower(item.name), ToLower(filterText)))
         IN [mm EXCEPT !.filteredResults = matching,
                       !.aliased = FALSE,
                       !.status = Status("Found %d matching results", Len(matching)),
                       !.page = 0,
                       !.cursor = 0]

\* textinput.Update: a focused input takes a rune or loses its last one; a
\* key that is neither leaves the value as it is
TypedRunes == FilterRunes \cup {"d"}
TypeFilter(input, key) ==
    IF ~input.focus THEN input
    ELSE IF key = "backspace"
    THEN [input EXCEPT !.value = SubSeq(@, 1, Len(@) - 1)]
    ELSE IF key \in TypedRunes THEN [input EXCEPT !.value = Append(@, key)]
    ELSE input
TypeSearch(input, key) ==
    IF ~input.focus THEN input
    ELSE IF key = "backspace" THEN [input EXCEPT !.value = ""]
    ELSE [input EXCEPT !.value = "kw"]

\* Update returns the Model and no command
Returns(mm) ==
    /\ model' = mm
    /\ UNCHANGED <<filterCapable, loopVarShared, searchCmd, transfers, cmds,
                   inbox, panicked, searchVars, outsideTui>>

\* the downloadFile commands that have not run, and those whose message is
\* on its way
Outstanding ==
    Len(cmds) + Len(SelectSeq(inbox, LAMBDA msg : msg.kind # "searchResult"))

\* Update returns the Model and downloadFile(m.downloadQueue[0], outputPath)
ReturnsDownload(mm) ==
    /\ Outstanding < MaxCmds
    /\ model' = mm
    /\ cmds' = Append(cmds, [url |-> mm.downloadQueue[1]])
    /\ UNCHANGED <<filterCapable, loopVarShared, searchCmd, transfers,
                   inbox, panicked, searchVars, outsideTui>>

\* the modes in which Update hands the key to a text input first
InText(mm) == mm.mode \in {"ModeSearch", "ModeFilter"}

\* default of the first switch: the search input takes the key in ModeSearch;
\* in ModeFilter the filter input takes it and the filter is applied again
TextDefault(mm, key) ==
    IF mm.mode = "ModeSearch"
    THEN [mm EXCEPT !.searchInput = TypeSearch(@, key)]
    ELSE Refilter([mm EXCEPT !.filterInput = TypeFilter(@, key)])

\* a rune or backspace pressed in a text mode; the filter input is given
\* the runes of TypedRunes only, MaxFilterLen of them at most
Typed(key) ==
    /\ model.mode = "ModeFilter" =>
          /\ key \in TypedRunes \cup {"backspace"}
          /\ key # "backspace" => Len(model.filterInput.value) < MaxFilterLen
    /\ Returns(TextDefault(model, key))

\* a key without a case
OnRune ==
    \E key \in FilterRunes \cup {"backspace"} :
        IF InText(model) THEN Typed(key) ELSE Returns(model)

\* case "ctrl+c", "esc": tea.Quit ends the program where the key does not
\* lead back to the results
OnEsc ==
    /\ InText(model)
    /\ IF model.mode = "ModeSearch"
       THEN /\ Len(model.searchResults) > 0
            /\ Returns([model EXCEPT !.mode = "ModeResults",
                                     !.searchInput.focus = FALSE,
                                     !.status = Status("Switched to results mode", 0)])
       ELSE Returns([model EXCEPT !.mode = "ModeResults",
                                  !.filterInput.focus = FALSE,
                                  !.status = Status("Filter mode exited", 0)])

\* case "tab"
OnTab ==
    IF model.mode = "ModeSearch"
    THEN IF Len(model.searchResults) > 0
         THEN Returns([model EXCEPT !.mode = "ModeResults",
                                    !.searchInput.focus = FALSE])
         ELSE Returns(model)
    ELSE IF model.mode = "ModeFilter" THEN Returns(TextDefault(model, "tab"))
    ELSE IF model.mode = "ModeResults"
    THEN Returns([model EXCEPT !.mode = "ModeDownloading",
                               !.status = Status("Switched to download queue view", 0)])
    ELSE Returns([model EXCEPT !.mode = "ModeSearch",
                               !.searchInput.focus = TRUE,
                               !.status = Status("Enter search terms", 0)])

\* the items Enter takes for selected, the map or the item's flag saying so
SelectedItems(mm) ==
    SelectSeq(mm.filteredResults,
              LAMBDA item : item.url \in mm.selectedFiles \/ item.selected)

RECURSIVE Urls(_)
Urls(items) == IF items = <<>> THEN <<>> ELSE <<Head(items).url>> \o Urls(Tail(items))

\* case "enter" in ModeSearch: the command runs the search; what its closure
\* assigns to m is assigned to the variable of a call of Update that has
\* returned its Model already, and reaches no later Update
EnterSearchMode ==
    /\ searchCmd + Len(SelectSeq(inbox, LAMBDA msg : msg.kind = "searchResult"))
          < MaxSearches
    /\ model' = [model EXCEPT !.status = Status("Searching for ...", 0)]
    /\ searchCmd' = searchCmd + 1
    /\ UNCHANGED <<filterCapable, loopVarShared, transfers, cmds, inbox,
                   panicked, searchVars, outsideTui>>

\* case "enter" in ModeResults: m.downloadedSize == 0 is the test of
\* "not already downloading"
NotDownloading(mm) == mm.downloadedSize = 0

EnterResults ==
    LET selectedItems == SelectedItems(model) IN
    IF Len(selectedItems) > 0
    THEN Len(model.downloadQueue) + Len(selectedItems) <= MaxQueue /\
         LET mm == [model EXCEPT
                      !.selectedFiles = @ \cup {selectedItems[i].url : i \in DOMAIN selectedItems},
                      !.downloadQueue = @ \o Urls(selectedItems),
                      !.mode = "ModeDownloading",
                      !.status = Status("Added %d files to download queue",
                                        Len(selectedItems))]
         IN IF Len(mm.downloadQueue) > 0 /\ NotDownloading(mm)
            THEN ReturnsDownload(mm)
            ELSE Returns(mm)
    ELSE Returns([model EXCEPT !.status = Status("No files selected for download", 0)])

\* case "enter" of the switches of ModeSearch and ModeFilter
OnEnterText ==
    /\ InText(model)
    /\ IF model.mode = "ModeSearch" THEN EnterSearchMode
       ELSE Returns([model EXCEPT !.mode = "ModeResults",
                                  !.filterInput.focus = FALSE,
                                  !.status = Status("Filter applied", 0)])

\* case "enter" of the switch of the other modes
OnEnter ==
    /\ ~InText(model)
    /\ IF model.mode = "ModeResults" THEN EnterResults ELSE Returns(model)

\* case " ", "space": item := &m.filteredResults[actualIdx] writes the flag
\* into the array, which is the array of m.searchResults while the two
\* slices are the same
Toggle(mm) ==
    LET actualIdx == mm.page * itemsPerPage + mm.cursor IN
    IF actualIdx >= 0 /\ actualIdx < Len(mm.filteredResults)
    THEN LET urlStr == mm.filteredResults[actualIdx + 1].url
             now    == urlStr \notin mm.selectedFiles
         IN [mm EXCEPT
               !.selectedFiles = IF now THEN @ \cup {urlStr} ELSE @ \ {urlStr},
               !.filteredResults[actualIdx + 1].selected = now,
               !.searchResults =
                    IF mm.aliased THEN [@ EXCEPT ![actualIdx + 1].selected = now]
                    ELSE @,
               !.status = Status(IF now THEN "Selected: %s" ELSE "Unselected: %s", 0)]
    ELSE [mm EXCEPT !.status = Status("Error: Could not select item, invalid position", 0)]

OnSpace ==
    IF InText(model) THEN model.mode = "ModeSearch" /\ Typed(" ")
    ELSE IF model.mode = "ModeResults" THEN Returns(Toggle(model))
    ELSE Returns(model)

\* case "j", "down"
CursorCap_none(cursor, startIdx, endIdx) == cursor
CursorCap(cursor, startIdx, endIdx) ==
    IF startIdx + cursor >= endIdx
    THEN IF endIdx - startIdx - 1 < 0 THEN 0 ELSE endIdx - startIdx - 1
    ELSE cursor

OnDown ==
    IF InText(model) THEN model.mode = "ModeSearch" /\ Typed("j")
    ELSE IF model.mode = "ModeResults"
    THEN LET startIdx == model.page * itemsPerPage
             endIdx   == IF startIdx + itemsPerPage > Len(model.filteredResults)
                         THEN Len(model.filteredResults)
                         ELSE startIdx + itemsPerPage
         IN Returns([model EXCEPT !.cursor = CursorCap(@ + 1, startIdx, endIdx)])
    ELSE Returns([model EXCEPT !.queueCursor =
                    IF @ + 1 >= Len(model.downloadQueue)
                    THEN IF Len(model.downloadQueue) - 1 < 0 THEN 0
                         ELSE Len(model.downloadQueue) - 1
                    ELSE @ + 1])

\* case "k", "up"
OnUp ==
    IF InText(model) THEN model.mode = "ModeSearch" /\ Typed("k")
    ELSE IF model.mode = "ModeResults"
    THEN Returns([model EXCEPT !.cursor = IF @ - 1 < 0 THEN 0 ELSE @ - 1])
    ELSE Returns([model EXCEPT !.queueCursor = IF @ - 1 < 0 THEN 0 ELSE @ - 1])

\* case "h", "left"
OnLeft ==
    IF InText(model) THEN model.mode = "ModeSearch" /\ Typed("h")
    ELSE IF model.mode = "ModeResults" /\ model.page > 0
    THEN Returns([model EXCEPT !.page = @ - 1,
                               !.cursor = 0,
                               !.status = Status("Page %d of %d", model.page)])
    ELSE Returns(model)

\* case "l", "right"
OnRight ==
    IF InText(model) THEN model.mode = "ModeSearch" /\ Typed("l")
    ELSE IF model.mode = "ModeResults"
            /\ model.page < TruncDiv(Len(model.filteredResults) - 1, itemsPerPage)
    THEN Returns([model EXCEPT !.page = @ + 1,
                               !.cursor = 0,
                               !.status = Status("Page %d of %d", model.page + 2)])
    ELSE Returns(model)

\* case "d": the item under the queue cursor leaves the queue
OnD ==
    IF InText(model) THEN Typed("d")
    ELSE IF /\ model.mode = "ModeDownloading"
            /\ Len(model.downloadQueue) > 0
            /\ model.queueCursor < Len(model.downloadQueue)
    THEN LET queue == SubSeq(model.downloadQueue, 1, model.queueCursor)
                      \o SubSeq(model.downloadQueue, model.queueCursor + 2,
                                Len(model.downloadQueue))
         IN Returns([model EXCEPT
                       !.downloadQueue = queue,
                       !.queueCursor = IF @ >= Len(queue) /\ Len(queue) > 0
                                       THEN Len(queue) - 1 ELSE @,
                       !.status = Status("Removed %s from download queue", 0)])
    ELSE Returns(model)

\* case "s"
OnS ==
    IF InText(model) THEN model.mode = "ModeSearch" /\ Typed("s")
    ELSE Returns([model EXCEPT !.mode = "ModeSearch",
                               !.searchInput.focus = TRUE,
                               !.filterInput.focus = FALSE,
                               !.status = Status("Enter search terms", 0)])

\* case "f"
OnF ==
    IF InText(model) THEN model.mode = "ModeSearch" /\ Typed("f")
    ELSE IF model.mode = "ModeResults"
    THEN Returns([model EXCEPT !.mode = "ModeFilter",
                               !.filterInput.focus = TRUE,
                               !.searchInput.focus = FALSE,
                               !.status = Status("Enter filter terms", 0)])
    ELSE Returns(model)

\* the lists a search of this Model may return: none, one record, a list
\* longer than a page, and a list without the first record
ModeResultLists ==
    {<<>>, SubSeq(Catalogue, 1, 1), Catalogue, SubSeq(Catalogue, 2, MaxList)}

\* the search command returns: m.searchEngine.Search taken as an input, a
\* list by descending size and a nil error, made into FileItems
SearchReturns ==
    /\ searchCmd > 0
    /\ \E res \in ModeResultLists :
          inbox' = Append(inbox, searchResultMsg(FileItems(res)))
    /\ searchCmd' = searchCmd - 1
    /\ UNCHANGED <<filterCapable, loopVarShared, model, transfers, cmds,
                   panicked, searchVars, outsideTui>>

\* Update, case searchResultMsg
UpdateSearchResult ==
    /\ inbox # <<>>
    /\ Head(inbox).kind = "searchResult"
    /\ inbox' = Tail(inbox)
    /\ LET msg == Head(inbox) IN
       model' = [model EXCEPT
                    !.searchResults = msg.results,
                    !.filteredResults = msg.results,
                    !.aliased = TRUE,
                    !.status = IF Len(msg.results) > 0
                               THEN Status("Found %d results", Len(msg.results))
                               ELSE Status("No results found", 0),
                    !.page = 0,
                    !.cursor = 0]
    /\ UNCHANGED <<filterCapable, loopVarShared, searchCmd, transfers, cmds,
                   panicked, searchVars, outsideTui>>

\* the command of downloadFile(url, outputPath): Start() fails and the
\* command returns an errorMsg, or the Transfer is under way, a goroutine
\* drains its events, and the command returns a downloadProgressMsg of 0 bytes
DownloadFileCmd ==
    /\ cmds # <<>>
    /\ LET u == Head(cmds).url IN
       \/ /\ inbox' = Append(inbox, errorMsg(u))
          /\ UNCHANGED transfers
       \/ /\ Made < Len(transfers)
          /\ transfers' = [transfers EXCEPT ![Made + 1] =
                              NewTransfer([URL |-> u, Size |-> 1, Name |-> <<>>], FALSE)]
          /\ inbox' = Append(inbox, downloadProgressMsg(0, 0, u))
    /\ cmds' = Tail(cmds)
    /\ UNCHANGED <<filterCapable, loopVarShared, model, searchCmd, panicked,
                   searchVars, outsideTui>>

\* for evt := range evts: the goroutine of downloadFile prints the event
ListenerRecv(t) ==
    /\ transfers[t].ch # <<>>
    /\ transfers' = [transfers EXCEPT ![t].ch = Tail(@)]
    /\ UNCHANGED <<filterCapable, loopVarShared, model, searchCmd, cmds, inbox,
                   panicked, searchVars, outsideTui>>

\* Update, case errorMsg
UpdateError ==
    /\ inbox # <<>>
    /\ Head(inbox).kind = "error"
    /\ inbox' = Tail(inbox)
    /\ LET msg == Head(inbox)
           mm  == [model EXCEPT !.error = "err",
                                !.downloadQueue = RemoveFirst(@, msg.url)]
       IN IF Len(mm.downloadQueue) > 0
          THEN /\ model' = mm
               /\ cmds' = Append(cmds, [url |-> mm.downloadQueue[1]])
          ELSE /\ model' = [mm EXCEPT !.status = Status("Error: ", 0)]
               /\ UNCHANGED cmds
    /\ UNCHANGED <<filterCapable, loopVarShared, searchCmd, transfers,
                   panicked, searchVars, outsideTui>>

\* Update, case downloadProgressMsg
UpdateProgress ==
    /\ inbox # <<>>
    /\ Head(inbox).kind = "downloadProgress"
    /\ inbox' = Tail(inbox)
    /\ LET msg  == Head(inbox)
           item == findFileItemByURL(model.searchResults, msg.url)
       IN model' = [model EXCEPT
                    !.downloadedSize = msg.bytesDownloaded,
                    !.totalSize = msg.totalBytes,
                    !.lastDownloadURL = msg.url,
                    !.currentFile = IF item # 0 THEN model.searchResults[item].name
                                    ELSE msg.url,
                    !.status = IF msg.totalBytes > 0
                               THEN Status("Downloading %s: %.1f%% (%.1f KB/s)", 0)
                               ELSE Status("Downloading %s: %d KB (%.1f KB/s)", 0)]
    /\ UNCHANGED <<filterCapable, loopVarShared, searchCmd, transfers, cmds,
                   panicked, searchVars, outsideTui>>

\* Update, case downloadFinishedMsg. The type is declared and handled, and
\* no command or goroutine of the program makes a value of it, so the
\* runtime never has one to deliver and no specification takes this step.
UpdateFinished(u) ==
    LET mm == [model EXCEPT !.downloadQueue = RemoveFirst(@, u),
                            !.downloadedSize = 0,
                            !.totalSize = 0,
                            !.status = Status("Download completed: %s", 0)]
    IN IF Len(mm.downloadQueue) > 0
       THEN /\ model' = mm
            /\ cmds' = Append(cmds, [url |-> mm.downloadQueue[1]])
            /\ UNCHANGED <<filterCapable, loopVarShared, searchCmd, transfers,
                           inbox, panicked, searchVars, outsideTui>>
       ELSE Returns(mm)

\* the keyboard but for Enter outside the text modes, the search command
\* and Update: nothing is queued
NextModes ==
    \/ OnRune
    \/ OnEsc
    \/ OnTab
    \/ OnEnterText
    \/ OnSpace
    \/ OnDown
    \/ OnUp
    \/ OnLeft
    \/ OnRight
    \/ OnD
    \/ OnS
    \/ OnF
    \/ SearchReturns
    \/ UpdateSearchResult

\* tea.NewProgram(NewModel()) in either build, beside an aggregator the
\* model takes the results of as inputs
InitModes ==
    /\ InitSearch /\ providerList = <<>>
    /\ InitTransfer /\ evPtr = TRUE /\ InitPoll /\ InitPure
    /\ filterCapable = FALSE /\ loopVarShared \in BOOLEAN
    /\ NewModeModel /\ InitRuntime(0)

SpecModes == InitModes /\ [][NextModes]_vars

\* selecting and queueing: the keys that search, filter, select and queue;
\* the downloadFile commands that Enter issues stay outstanding
NextSelect ==
    \/ OnRune
    \/ OnTab
    \/ OnEnterText
    \/ OnEnter
    \/ OnSpace
    \/ OnD
    \/ OnF
    \/ SearchReturns
    \/ UpdateSearchResult

SpecSelect == InitModes /\ [][NextSelect]_vars

\* a user who submits one search: Enter in a text mode while no results
\* are loaded
OnFirstSearch == model.searchResults = <<>> /\ OnEnterText

\* the download queue: one search, the keys that select and queue, the
\* downloadFile commands, the Transfers and their listeners, and Update
NextQueue ==
    \/ OnTab
    \/ OnFirstSearch
    \/ OnEnter
    \/ OnSpace
    \/ OnD
    \/ SearchReturns
    \/ UpdateSearchResult
    \/ DownloadFileCmd
    \/ \E t \in DOMAIN transfers : TransferStarted(t)
    \/ \E t \in DOMAIN transfers : TransferEnds(t)
    \/ \E t \in DOMAIN transfers : TransferCloses(t)
    \/ \E t \in DOMAIN transfers : ListenerRecv(t)
    \/ UpdateError
    \/ UpdateProgress

InitQueue ==
    /\ InitSearch /\ providerList = <<>>
    /\ InitTransfer /\ evPtr = TRUE /\ InitPoll /\ InitPure
    /\ filterCapable = FALSE /\ loopVarShared \in BOOLEAN
    /\ NewModeModel /\ InitRuntime(TuiTransfers)

SpecQueue == InitQueue /\ [][NextQueue]_vars

\* the runtime runs every command and delivers every message, a Transfer
\* that was started ends and closes its events, and the listener receives
\* what the Transfer sends; the user presses keys or does not
LiveSpecQueue ==
    /\ SpecQueue
    /\ WF_vars(SearchReturns)
    /\ WF_vars(UpdateSearchResult)
    /\ WF_vars(DownloadFileCmd)
    /\ WF_vars(UpdateError)
    /\ WF_vars(UpdateProgress)
    /\ \A t \in 1..TuiTransfers :
          /\ WF_vars(TransferEnds(t))
          /\ WF_vars(TransferCloses(t))
          /\ WF_vars(ListenerRecv(t))

\* starting downloads: the queue without the key that removes from it, and
\* room for a second Transfer
NextStarting ==
    \/ OnTab
    \/ OnFirstSearch
    \/ OnEnter
    \/ OnSpace
    \/ SearchReturns
    \/ UpdateSearchResult
    \/ DownloadFileCmd
    \/ \E t \in DOMAIN transfers : TransferStarted(t)
    \/ \E t \in DOMAIN transfers : TransferEnds(t)
    \/ \E t \in DOMAIN transfers : TransferCloses(t)
    \/ \E t \in DOMAIN transfers : ListenerRecv(t)
    \/ UpdateError
    \/ UpdateProgress

InitStarting ==
    /\ InitSearch /\ providerList = <<>>
    /\ InitTransfer /\ evPtr = TRUE /\ InitPoll /\ InitPure
    /\ filterCapable = FALSE /\ loopVarShared \in BOOLEAN
    /\ NewModeModel /\ InitRuntime(MaxTransfers)

SpecStarting == InitStarting /\ [][NextStarting]_vars

\* ---------------------------------------------------------------------
\* Claims about the mode-based Model
\* ---------------------------------------------------------------------
\* the step in which Update handles a searchResultMsg
HandlesSearchResult ==
    /\ inbox # <<>>
    /\ Head(inbox).kind = "searchResult"
    /\ inbox' = Tail(inbox)

\* C31: once the searchResultMsg of a search submitted with Enter in search
\* mode has been handled, the Model is in ModeResults and the search input
\* is blurred.
C31_ResultsModeAfterSearch ==
    [][HandlesSearchResult =>
          (model'.mode = "ModeResults" /\ ~model'.searchInput.focus)]_vars

\* C32: handling a searchResultMsg clears the selection: no locator that
\* was selected under the previous results is selected afterwards.
C32_SelectionCleared ==
    [][HandlesSearchResult =>
          (\A u \in model.selectedFiles : u \notin model'.selectedFiles)]_vars

\* the step in which Enter in ModeResults appends to the download queue
QueuesFiles ==
    /\ model.mode = "ModeResults"
    /\ Len(model'.downloadQueue) > Len(model.downloadQueue)

\* the locators of the listed items that the selection map holds
MapSelected ==
    Urls(SelectSeq(model.filteredResults,
                   LAMBDA item : item.url \in model.selectedFiles))

\* C33: Enter in ModeResults queues only the files that are selected: an
\* item of filteredResults is appended to downloadQueue exactly when its
\* locator is in selectedFiles, whatever toggles and filter changes came
\* before.
C33_QueuesOnlySelected ==
    [][QueuesFiles =>
          model'.downloadQueue = model.downloadQueue \o MapSelected]_vars

\* C33 in its other wording: the flag of a listed item and the selection
\* map say the same of it.
C33_FlagAgreesWithMap ==
    \A i \in DOMAIN model.filteredResults :
        model.filteredResults[i].selected
            <=> model.filteredResults[i].url \in model.selectedFiles

\* the step in which Enter in ModeResults issues a downloadFile command
StartsDownload ==
    /\ model.mode = "ModeResults"
    /\ model'.mode = "ModeDownloading"
    /\ Len(cmds') > Len(cmds)

\* the Transfers that have been started and have not ended
UnderWay ==
    {t \in DOMAIN transfers : transfers[t].phase \in {"offered", "started"}}

\* C34: Enter in ModeResults issues a downloadFile command only when no
\* download is in progress: while a Transfer is under way the newly
\* selected files are appended to the queue and no command is issued.
C34_StartsOnlyWhenIdle ==
    [][StartsDownload => UnderWay = {}]_vars

\* C34, what it rules out: two Transfers under way at once.
C34_OneTransferAtATime == Cardinality(UnderWay) <= 1

\* C35: the download queue drains: given that every Transfer ends, a
\* locator that was appended leaves the queue when its download finishes
\* or fails and the next download starts, so that a queue that is not
\* empty is eventually empty.
C35_QueueDrains ==
    (model.downloadQueue # <<>>) ~> (model.downloadQueue = <<>>)

\* C36: whenever filteredResults is not empty the cursor, which counts
\* within the page, addresses an item of it:
\* cursor >= 0 and page * itemsPerPage + cursor < len(filteredResults).
C36_CursorAddressesItem ==
    model.filteredResults # <<>> =>
        /\ model.cursor >= 0
        /\ model.page * itemsPerPage + model.cursor < Len(model.filteredResults)

\* the cursor on the last item of a page after the first, under a filter
\* that some of the results match
C36_Witness ==
    /\ model.mode = "ModeResults"
    /\ model.filterInput.value # <<>>
    /\ model.page > 0
    /\ model.page * itemsPerPage + model.cursor = Len(model.filteredResults) - 1
====
